---- MODULE Spec2Model ----
(***************************************************************************)
(* Power / steam balancing of a captive power plant.                       *)
(*                                                                         *)
(*   - priority dispatch of generation units (power_service.py)            *)
(*   - steam header balance and HRSG firing dispatch (steam_service.py)    *)
(*   - the USD fixed-point iteration (iteration_service.py)                *)
(*                                                                         *)
(* Quantities are fixed-point integers: one unit is 1/Scale of a MWh (or   *)
(* of a MT of steam), the resolution at which the program rounds the       *)
(* quantities it reports (round(x, 2)).  Products with a norm are rounded  *)
(* to the nearest unit, the equal share of a tier is the floor quotient.   *)
(***************************************************************************)
EXTENDS Integers, Sequences, FiniteSets, TLC

VARIABLES
    \* ---- distribute_by_priority, one call, step by step ----
    d_pc,            \* position in distribute_by_priority
    d_in,            \* the call's arguments and the data it reads
    d_pre,           \* values computed before the dispatch loop
    avail,           \* the available units (rows with minEnergy / maxEnergy)
    asset_dispatch,  \* gross energy per unit during _dispatch_once
    remaining,       \* demand still to place in _dispatch_once
    d_prios,         \* priority groups not yet processed
    d_last,          \* what the last group step did
    gross_target,    \* gross target of the current pass
    d_it,            \* pass number (it)
    d_tot,           \* totals of the last finished pass
    d_result         \* the returned dict

dvars == <<d_pc, d_in, d_pre, avail, asset_dispatch, remaining, d_prios,
           d_last, gross_target, d_it, d_tot, d_result>>

VARIABLES
    \* ---- usd_iterate, one run, step by step ----
    u_pc,                          \* position in usd_iterate
    u_in,                          \* the run's arguments and the data it reads
    iteration,                     \* loop counter
    iteration_history,             \* number of records appended
    converged,
    previous_utility_aux_mwh,
    current_utility_aux_mwh,
    stg_reduction_mwh,
    import_compensation_mwh,
    stg_original_max_mwh,
    stg_steam_limit_mwh,
    stg_min_override_mwh,
    gt_reduction_for_balance_mwh,
    power_initially_converged,
    power_result,                  \* what distribute_by_priority returned
    cur,                           \* the values computed in this iteration
    prev,                          \* the values of the iteration before
    final,                         \* final_dispatch, final_steam_balance, ...
    u_result                       \* the returned dict

uvars == <<u_pc, u_in, iteration, iteration_history, converged,
           previous_utility_aux_mwh, current_utility_aux_mwh, stg_reduction_mwh,
           import_compensation_mwh, stg_original_max_mwh, stg_steam_limit_mwh,
           stg_min_override_mwh, gt_reduction_for_balance_mwh,
           power_initially_converged, power_result, cur, prev, final, u_result>>

VARIABLES
    \* ---- dispatch_hrsg_load, one call ----
    h_pc,            \* position: "capacity", "dispatch", "done" ("idle" elsewhere)
    h_in,            \* the power dispatch entries and the SHP demand
    h_capacity,      \* result of calculate_shp_generation_capacity
    h_result         \* result of dispatch_hrsg_load

hvars == <<h_pc, h_in, h_capacity, h_result>>

VARIABLES
    \* ---- one query of a lookup curve ----
    k_pc,            \* "query", "done" ("idle" elsewhere)
    k_in,            \* the curve (rows sorted by x) and the queried x
    k_fn,            \* the lookup function that was called
    k_result,        \* what it returned
    k_balance        \* the load-based LP and MP balance computed from it

kvars == <<k_pc, k_in, k_fn, k_result, k_balance>>

VARIABLES
    \* ---- two runs that call get_hrsg_assets, interleaved ----
    r_pc,            \* per run: "test", "load", "return", "done" ("idle" elsewhere)
    r_in,            \* the SteamGenerationAssets rows; per run, whether its query succeeds
    r_calls,         \* per run: calls of get_hrsg_assets still to make
    hrsg_assets,     \* the module-level HRSG_ASSETS dictionary
    hrsg_writer,     \* who bound HRSG_ASSETS last: 0 the module import, else the run
    r_seen,          \* per run: the writers of the values of HRSG_ASSETS it has read
    r_got            \* per run: what its last call of get_hrsg_assets returned

rvars == <<r_pc, r_in, r_calls, hrsg_assets, hrsg_writer, r_seen, r_got>>

vars == <<dvars, uvars, hvars, kvars, rvars>>

----------------------------------------------------------------------------
(* Fixed-point arithmetic *)

Scale == 100

None == -1

Min2(a, b) == IF a <= b THEN a ELSE b

Max2(a, b) == IF a >= b THEN a ELSE b

Abs(a) == IF a >= 0 THEN a ELSE 0 - a

\* floor(a * b / c) without overflowing 32 bits
MulDiv(a, b, c) == (a \div c) * b + ((a % c) * b) \div c

\* a * b / c rounded to the nearest unit
RoundMulDiv(a, b, c) == (a \div c) * b + ((a % c) * b + c \div 2) \div c

\* a / n rounded to the nearest unit
RoundDiv(a, n) == (a + n \div 2) \div n

RECURSIVE SumIdx(_, _)
SumIdx(f, S) ==
    IF S = {} THEN 0
    ELSE LET i == CHOOSE x \in S : TRUE IN f[i] + SumIdx(f, S \ {i})

SumSeq(f) == SumIdx(f, DOMAIN f)

----------------------------------------------------------------------------
(* Program constants, power_service.py *)

ITERATION_LIMIT == 100

TOLERANCE == 1 * Scale

\* "while temp_remaining > 0.1"
SHARE_THRESHOLD == Scale \div 10

\* norms are per mille: aux = gross * norm
NormDenominator == 1000

----------------------------------------------------------------------------
(* _dispatch_once *)

IsSTG(r) == r.kind = "STG"

IsGT(r) == r.kind = "GT"

Aux(gross, norm) == RoundMulDiv(gross, norm, NormDenominator)

Reverse(s) == [i \in DOMAIN s |-> s[Len(s) + 1 - i]]

\* variant: the assets start from zero
MinLoad_Zero(av) == [i \in DOMAIN av |-> 0]

\* every asset starts at half its minimum energy
MinLoad_Half(av) == [i \in DOMAIN av |-> av[i].minEnergy \div 2]

\* STEP 1: every available asset starts at its minimum energy
MinLoad(av) == [i \in DOMAIN av |-> av[i].minEnergy]

RECURSIVE SortedSet(_)
SortedSet(S) ==
    IF S = {} THEN <<>>
    ELSE LET m == CHOOSE x \in S : \A y \in S : x <= y
         IN <<m>> \o SortedSet(S \ {m})

\* variant: the groups are visited from the highest priority number down
SortedPriorities_Descending(av) ==
    Reverse(SortedSet({av[i].Priority : i \in DOMAIN av}))

\* sorted(priority_groups.keys())
SortedPriorities(av) == SortedSet({av[i].Priority : i \in DOMAIN av})

\* the members of a priority group that can still be raised
GroupAvailable(av, g, prio) ==
    {i \in DOMAIN av : av[i].Priority = prio /\ av[i].maxEnergy - g[i] > 0}

\* variant: a single round, the share a capped member cannot take is dropped
EqualShareLoop_Once(av, g, members, temp) ==
    LET equal_share == temp \div Cardinality(members)
        inc == [i \in DOMAIN g |->
                  IF i \in members
                  THEN Min2(equal_share, av[i].maxEnergy - g[i]) ELSE 0]
    IN [gross |-> [i \in DOMAIN g |-> g[i] + inc[i]],
        temp_remaining |-> temp - SumIdx(inc, members)]

\* the while loop: raise the members by an equal share until the allocation
\* is placed or nobody can take more
RECURSIVE EqualShareLoop(_, _, _, _)
EqualShareLoop(av, g, members, temp) ==
    IF temp <= SHARE_THRESHOLD THEN [gross |-> g, temp_remaining |-> temp]
    ELSE LET can_increase == {i \in members : g[i] < av[i].maxEnergy} IN
         IF can_increase = {} THEN [gross |-> g, temp_remaining |-> temp]
         ELSE LET equal_share == temp \div Cardinality(can_increase)
                  inc == [i \in DOMAIN g |->
                            IF i \in can_increase
                            THEN Min2(equal_share, av[i].maxEnergy - g[i])
                            ELSE 0]
                  g2 == [i \in DOMAIN g |-> g[i] + inc[i]]
              IN EqualShareLoop(av, g2, members, temp - SumIdx(inc, can_increase))

\* one pass of "for priority in sorted(priority_groups.keys())"
ProcessGroup(av, g, rem, prio) ==
    LET ga == GroupAvailable(av, g, prio) IN
    IF ga = {} THEN [gross |-> g, remaining |-> rem, allocation |-> 0, left |-> 0]
    ELSE LET total_group_available ==
                 SumIdx([i \in DOMAIN av |-> av[i].maxEnergy - g[i]], ga)
             group_allocation == Min2(rem, total_group_available)
         IN IF Cardinality(ga) = 1
            THEN LET idx == CHOOSE i \in ga : TRUE IN
                 [gross |-> [g EXCEPT ![idx] = @ + group_allocation],
                  remaining |-> rem - group_allocation,
                  allocation |-> group_allocation, left |-> 0]
            ELSE LET r == EqualShareLoop(av, g, ga, group_allocation) IN
                 [gross |-> r.gross,
                  remaining |-> rem - (group_allocation - r.temp_remaining),
                  allocation |-> group_allocation, left |-> r.temp_remaining]

RECURSIVE DispatchGroups(_, _, _, _)
DispatchGroups(av, g, rem, prios) ==
    IF prios = <<>> \/ rem <= 0 THEN g
    ELSE LET r == ProcessGroup(av, g, rem, Head(prios))
         IN DispatchGroups(av, r.gross, r.remaining, Tail(prios))

\* STEP 3: totals of the dispatch entries
Totals(av, g) ==
    LET aux == [i \in DOMAIN av |-> Aux(g[i], av[i].norm)]
    IN [gross |-> g,
        total_gross |-> SumSeq(g),
        total_aux |-> SumSeq(aux),
        total_net |-> SumSeq(g) - SumSeq(aux)]

\* "Remaining demand (negative means excess generation)": the fifth value
\* _dispatch_once returns
Shortfall(demand_units, g) == Max2(0, demand_units - SumSeq(g))

dispatch_once(av, demand_units) ==
    LET g0 == MinLoad(av)
        rem == demand_units - SumSeq(g0)
        g == IF rem > 0 THEN DispatchGroups(av, g0, rem, SortedPriorities(av)) ELSE g0
    IN Totals(av, g)

----------------------------------------------------------------------------
(* distribute_by_priority: the data it reads and its preparation *)

\* rows of the asset query with OperationalHours > 0, with their energies
BuildAvail(plant) ==
    LET rows == SelectSeq(plant, LAMBDA r : r.opHours > 0)
    IN [i \in DOMAIN rows |->
          [AssetName |-> rows[i].AssetName, kind |-> rows[i].kind,
           num |-> rows[i].num, Priority |-> rows[i].Priority,
           minMW |-> rows[i].minMW, capacity |-> rows[i].capacity,
           opHours |-> rows[i].opHours, norm |-> rows[i].norm,
           minEnergy |-> rows[i].minMW * rows[i].opHours * Scale,
           maxEnergy |-> rows[i].capacity * rows[i].opHours * Scale]]

\* ApplyStgLimit as a hard bound: the minimum is lowered with the maximum
ApplyStgLimit_Hard(av, stg_max_mwh) ==
    IF stg_max_mwh = None THEN av
    ELSE [i \in DOMAIN av |->
            IF IsSTG(av[i])
            THEN [av[i] EXCEPT !.maxEnergy = Min2(@, Max2(0, stg_max_mwh)),
                               !.minEnergy = Min2(@, Max2(0, stg_max_mwh))]
            ELSE av[i]]

\* "Apply STG limit if specified"
ApplyStgLimit(av, stg_max_mwh) ==
    IF stg_max_mwh = None THEN av
    ELSE [i \in DOMAIN av |->
            IF IsSTG(av[i])
            THEN [av[i] EXCEPT !.maxEnergy = Min2(@, Max2(0, stg_max_mwh))]
            ELSE av[i]]

\* "Apply STG min override if specified"
ApplyStgMinOverride(av, min_override_mwh) ==
    IF min_override_mwh = None \/ min_override_mwh <= 0 THEN av
    ELSE [i \in DOMAIN av |->
            IF IsSTG(av[i])
            THEN [av[i] EXCEPT !.minEnergy = Max2(@, min_override_mwh)]
            ELSE av[i]]

\* the while loop of the GT reduction: lower the maxima by an equal share
RECURSIVE EqualReduceLoop(_, _, _)
EqualReduceLoop(av, members, temp) ==
    IF temp <= SHARE_THRESHOLD THEN [avail |-> av, temp_remaining |-> temp]
    ELSE LET can_reduce == {i \in members : av[i].maxEnergy > av[i].minEnergy} IN
         IF can_reduce = {} THEN [avail |-> av, temp_remaining |-> temp]
         ELSE LET equal_share == temp \div Cardinality(can_reduce)
                  dec == [i \in DOMAIN av |->
                            IF i \in can_reduce
                            THEN Min2(equal_share, av[i].maxEnergy - av[i].minEnergy)
                            ELSE 0]
                  av2 == [i \in DOMAIN av |->
                            [av[i] EXCEPT !.maxEnergy = @ - dec[i]]]
              IN EqualReduceLoop(av2, members, temp - SumIdx(dec, can_reduce))

ReduceGroup(av, rem, prio) ==
    LET ga == {i \in DOMAIN av : IsGT(av[i]) /\ av[i].Priority = prio
                                 /\ av[i].maxEnergy - av[i].minEnergy > 0}
    IN IF ga = {} THEN [avail |-> av, remaining |-> rem]
       ELSE LET total_group_available ==
                    SumIdx([i \in DOMAIN av |-> av[i].maxEnergy - av[i].minEnergy], ga)
                group_reduction == Min2(rem, total_group_available)
            IN IF Cardinality(ga) = 1
               THEN LET idx == CHOOSE i \in ga : TRUE IN
                    [avail |-> [av EXCEPT ![idx].maxEnergy = @ - group_reduction],
                     remaining |-> rem - group_reduction]
               ELSE LET r == EqualReduceLoop(av, ga, group_reduction) IN
                    [avail |-> r.avail,
                     remaining |-> rem - (group_reduction - r.temp_remaining)]

RECURSIVE ReduceGroups(_, _, _)
ReduceGroups(av, rem, prios) ==
    IF prios = <<>> \/ rem <= 0 THEN av
    ELSE LET r == ReduceGroup(av, rem, Head(prios))
         IN ReduceGroups(r.avail, r.remaining, Tail(prios))

\* "Apply GT reduction if specified": lowest priority group first
ApplyGtReduction(av, gt_reduction_mwh) ==
    IF gt_reduction_mwh <= 0 THEN av
    ELSE ReduceGroups(av, gt_reduction_mwh,
             Reverse(SortedSet({av[i].Priority : i \in {j \in DOMAIN av : IsGT(av[j])}})))

AdjustAvail(av, in) ==
    ApplyGtReduction(
        ApplyStgMinOverride(ApplyStgLimit(av, in.stg_max_mwh), in.stg_min_override_mwh),
        in.gt_reduction_mwh)

\* "Import = Total Demand - Min Plant Capacity (but not more than available)"
ImportUsed(max_import_mwh, total_demand, total_min_energy) ==
    Min2(max_import_mwh, Max2(0, total_demand - total_min_energy))

\* everything distribute_by_priority computes before the dispatch loop
Prepare(in) ==
    LET av0 == BuildAvail(in.plant)
        total_demand == in.base_demand + in.additional_demand_mwh
    IN IF ~in.fym_found \/ av0 = <<>>
       THEN [status |-> "message", avail |-> av0, total_demand |-> total_demand,
             total_min_energy |-> 0, max_import_mwh |-> 0,
             actual_import_used_mwh |-> 0, net_demand_for_dispatch |-> 0,
             plant_gross_capacity |-> 0]
       ELSE LET total_min_energy == SumSeq([i \in DOMAIN av0 |-> av0[i].minEnergy])
                av == AdjustAvail(av0, in)
                operating_hours == av[1].opHours
                max_import_mwh == IF in.import_mw # 0
                                  THEN in.import_mw * operating_hours * Scale ELSE 0
                used == IF in.import_mw # 0
                        THEN ImportUsed(max_import_mwh, total_demand, total_min_energy)
                        ELSE 0
                net_demand == total_demand - used
                plant_gross_capacity == SumSeq([i \in DOMAIN av |-> av[i].maxEnergy])
            IN [status |-> IF net_demand <= 0 THEN "no_demand"
                           ELSE IF total_demand >
                                   plant_gross_capacity + max_import_mwh + TOLERANCE
                                THEN "insufficientCapacity"
                                ELSE "dispatch",
                avail |-> av, total_demand |-> total_demand,
                total_min_energy |-> total_min_energy,
                max_import_mwh |-> max_import_mwh,
                actual_import_used_mwh |-> used,
                net_demand_for_dispatch |-> net_demand,
                plant_gross_capacity |-> plant_gross_capacity]

----------------------------------------------------------------------------
(* distribute_by_priority: the dispatch loop and the result *)

\* what the loop body decides after a pass
LoopStep(pre, target, it, tot) ==
    LET error == pre.net_demand_for_dispatch - tot.total_net
        max_possible_gross == pre.plant_gross_capacity
        t1 == target + error
        t2 == IF t1 > max_possible_gross THEN max_possible_gross ELSE t1
        t3 == IF t2 < 0 THEN 0 ELSE t2
    IN IF Abs(error) <= TOLERANCE THEN [stop |-> TRUE, converged |-> TRUE, target |-> target]
       ELSE IF error < 0 - TOLERANCE
            THEN [stop |-> TRUE, converged |-> TRUE, target |-> target]
       ELSE IF tot.total_gross = max_possible_gross /\ error > 0
            THEN [stop |-> TRUE, converged |-> FALSE, target |-> t3]
       ELSE [stop |-> it >= ITERATION_LIMIT, converged |-> FALSE, target |-> t3]

\* _create_dispatch_entry, for every asset
DispatchPlan(av, g) ==
    [i \in DOMAIN av |->
       [AssetName |-> av[i].AssetName, kind |-> av[i].kind, num |-> av[i].num,
        Priority |-> av[i].Priority, CapacityMW |-> av[i].capacity,
        MinMW |-> av[i].minMW, Hours |-> av[i].opHours,
        GrossMWh |-> g[i], AuxMWh |-> Aux(g[i], av[i].norm),
        NetMWh |-> g[i] - Aux(g[i], av[i].norm),
        \* the HeatRateLookup table of these runs has no rows
        FreeSteam |-> None]]

\* "Allow deficit up to 1% of demand"
AcceptableDeficit(total_demand) == Max2(50 * Scale, total_demand \div 100)

NoPlanResult(pre, kind) ==
    [kind |-> kind,
     hasPlan |-> kind # "message",
     dispatchPlan |-> <<>>,
     converged |-> kind = "no_demand",
     totalDemandUnits |-> IF kind = "no_demand" THEN pre.total_demand ELSE 0,
     netDemandForDispatch |-> pre.net_demand_for_dispatch,
     importUnits |-> IF kind = "insufficientCapacity" THEN pre.max_import_mwh
                     ELSE pre.actual_import_used_mwh,
     totalGrossGeneration |-> 0, totalAuxConsumption |-> 0,
     totalNetGeneration |-> 0, excessPowerForExport |-> 0,
     remaining_after_assets |-> 0, remainingDemandUnits |-> 0,
     iterationsUsed |-> 0,
     \* the figures of the "Insufficient capacity" report
     plantGrossCapabilityUnits |->
         IF kind = "insufficientCapacity" THEN pre.plant_gross_capacity ELSE 0,
     totalAvailableUnits |->
         IF kind = "insufficientCapacity"
         THEN pre.plant_gross_capacity + pre.max_import_mwh ELSE 0,
     messageTotalDemand |->
         IF kind = "insufficientCapacity" THEN pre.total_demand ELSE 0]

\* the code after the dispatch loop
Finish(pre, av, tot, it, loop_converged) ==
    LET remaining_after_assets ==
            Max2(0, pre.net_demand_for_dispatch - tot.total_net)
        excess_power_for_export ==
            Max2(0, tot.total_net - pre.net_demand_for_dispatch)
        insufficient == remaining_after_assets > AcceptableDeficit(pre.total_demand)
        is_converged == loop_converged
                     \/ remaining_after_assets <= TOLERANCE
                     \/ excess_power_for_export > 0
                     \/ remaining_after_assets > TOLERANCE
    IN [kind |-> IF insufficient THEN "insufficientCapacityAfterImport" ELSE "plan",
        hasPlan |-> TRUE,
        dispatchPlan |-> DispatchPlan(av, tot.gross),
        converged |-> IF insufficient THEN FALSE ELSE is_converged,
        totalDemandUnits |-> IF insufficient THEN 0 ELSE pre.total_demand,
        netDemandForDispatch |-> pre.net_demand_for_dispatch,
        importUnits |-> pre.actual_import_used_mwh,
        totalGrossGeneration |-> IF insufficient THEN 0 ELSE tot.total_gross,
        totalAuxConsumption |-> IF insufficient THEN 0 ELSE tot.total_aux,
        totalNetGeneration |-> IF insufficient THEN 0 ELSE tot.total_net,
        excessPowerForExport |-> IF insufficient THEN 0 ELSE excess_power_for_export,
        remaining_after_assets |-> remaining_after_assets,
        remainingDemandUnits |-> 0,
        iterationsUsed |-> it]

RECURSIVE DispatchLoop(_, _, _)
DispatchLoop(pre, target, it) ==
    LET tot == dispatch_once(pre.avail, target)
        step == LoopStep(pre, target, it, tot)
    IN IF step.stop THEN Finish(pre, pre.avail, tot, it, step.converged)
       ELSE DispatchLoop(pre, step.target, it + 1)

distribute_by_priority(in) ==
    LET pre == Prepare(in)
    IN IF pre.status = "dispatch"
       THEN DispatchLoop(pre, pre.net_demand_for_dispatch, 1)
       ELSE NoPlanResult(pre, pre.status)

----------------------------------------------------------------------------
(* The data of a run: asset rows as the asset query returns them (ordered   *)
(* by priority), and the values the callers pass.                           *)

Row(name, kind, num, prio, minMW, capacity, hours, norm) ==
    [AssetName |-> name, kind |-> kind, num |-> num, Priority |-> prio,
     minMW |-> minMW, capacity |-> capacity, opHours |-> hours, norm |-> norm]

\* three identical GTs on three priorities, no aux norm configured
PlantScenarioA ==
    << Row("GT1", "GT", 1, 1, 5, 22, 720, 0),
       Row("GT2", "GT", 2, 2, 5, 22, 720, 0),
       Row("GT3", "GT", 3, 3, 5, 22, 720, 0) >>

\* the STG first, then the GTs one per priority
PlantStgFirst ==
    << Row("STG", "STG", 0, 1, 5, 25, 720, 2),
       Row("GT1", "GT", 1, 2, 5, 22, 720, 14),
       Row("GT2", "GT", 2, 3, 5, 22, 720, 14),
       Row("GT3", "GT", 3, 4, 5, 22, 720, 14) >>

\* two GTs of different size share the first tier
PlantSameTier ==
    << Row("GT1", "GT", 1, 1, 5, 22, 720, 0),
       Row("GT2", "GT", 2, 1, 5, 15, 720, 0),
       Row("GT3", "GT", 3, 2, 5, 22, 720, 0),
       Row("STG", "STG", 0, 3, 5, 25, 720, 0) >>

\* the GTs share a tier, one GT is out for the month, the STG comes last
PlantGtTier ==
    << Row("GT1", "GT", 1, 1, 5, 22, 720, 14),
       Row("GT2", "GT", 2, 1, 5, 22, 720, 14),
       Row("GT3", "GT", 3, 1, 5, 22, 0, 14),
       Row("STG", "STG", 0, 2, 0, 25, 720, 2) >>

MWh(x) == x * Scale

\* the demand grid of the dispatch runs
DemandStep == MWh(3600)

DemandLevels == 18

ScenarioADemand == MWh(20000)

DispatchInputs ==
    [fym_found : BOOLEAN,
     plant : {PlantScenarioA, PlantStgFirst, PlantSameTier, PlantGtTier},
     base_demand : {k * DemandStep : k \in 0..DemandLevels} \cup {ScenarioADemand},
     additional_demand_mwh : {0, 5},
     import_mw : {0, 10},
     stg_max_mwh : {None, 0, MWh(1000), MWh(10000)},
     stg_min_override_mwh : {None, MWh(8000)},
     gt_reduction_mwh : {0, MWh(4000), MWh(30000)}]

----------------------------------------------------------------------------
(* distribute_by_priority as a state machine: one call, step by step *)

NoTotals == [gross |-> <<>>, total_gross |-> 0, total_aux |-> 0, total_net |-> 0,
             converged |-> FALSE]

NoGroup == [prio |-> 0, members |-> {}, before |-> <<>>, after |-> <<>>,
            rem_before |-> 0, allocation |-> 0, left |-> 0]

NoResult == [kind |-> "none"]

NoPre == [status |-> "none"]

DInit ==
    /\ d_pc = "start"
    /\ d_in \in DispatchInputs
    /\ d_pre = NoPre
    /\ avail = <<>>
    /\ asset_dispatch = <<>>
    /\ remaining = 0
    /\ d_prios = <<>>
    /\ d_last = NoGroup
    /\ gross_target = 0
    /\ d_it = 0
    /\ d_tot = NoTotals
    /\ d_result = NoResult

\* the code up to the dispatch loop
DPrepare ==
    /\ d_pc = "start"
    /\ LET pre == Prepare(d_in) IN
       /\ d_pre' = pre
       /\ avail' = pre.avail
       /\ IF pre.status = "dispatch"
          THEN /\ d_pc' = "min"
               /\ gross_target' = pre.net_demand_for_dispatch
               /\ d_it' = 1
               /\ d_result' = d_result
          ELSE /\ d_pc' = "done"
               /\ d_result' = NoPlanResult(pre, pre.status)
               /\ UNCHANGED <<gross_target, d_it>>
    /\ UNCHANGED <<d_in, asset_dispatch, remaining, d_prios, d_last, d_tot>>

\* _dispatch_once STEP 1
DAssignMin ==
    /\ d_pc = "min"
    /\ LET g0 == MinLoad(avail)
           rem == gross_target - SumSeq(g0)
       IN /\ asset_dispatch' = g0
          /\ remaining' = rem
          /\ d_prios' = IF rem > 0 THEN SortedPriorities(avail) ELSE <<>>
    /\ d_last' = NoGroup
    /\ d_pc' = "group"
    /\ UNCHANGED <<d_in, d_pre, avail, gross_target, d_it, d_tot, d_result>>

\* _dispatch_once STEP 2, one priority group
DProcessGroup ==
    /\ d_pc = "group"
    /\ d_prios # <<>>
    /\ remaining > 0
    /\ LET r == ProcessGroup(avail, asset_dispatch, remaining, Head(d_prios)) IN
       /\ asset_dispatch' = r.gross
       /\ remaining' = r.remaining
       /\ d_last' = [prio |-> Head(d_prios),
                     members |-> GroupAvailable(avail, asset_dispatch, Head(d_prios)),
                     before |-> asset_dispatch, after |-> r.gross,
                     rem_before |-> remaining,
                     allocation |-> r.allocation, left |-> r.left]
    /\ d_prios' = Tail(d_prios)
    /\ UNCHANGED <<d_pc, d_in, d_pre, avail, gross_target, d_it, d_tot, d_result>>

\* _dispatch_once STEP 3 and the rest of the loop body
DCreateEntries ==
    /\ d_pc = "group"
    /\ d_prios = <<>> \/ remaining <= 0
    /\ LET tot == Totals(avail, asset_dispatch)
           step == LoopStep(d_pre, gross_target, d_it, tot)
       IN /\ d_tot' = [gross |-> tot.gross, total_gross |-> tot.total_gross,
                       total_aux |-> tot.total_aux, total_net |-> tot.total_net,
                       converged |-> step.converged]
          /\ IF step.stop
             THEN /\ d_pc' = "finish"
                  /\ UNCHANGED <<gross_target, d_it>>
             ELSE /\ d_pc' = "min"
                  /\ gross_target' = step.target
                  /\ d_it' = d_it + 1
    /\ UNCHANGED <<d_in, d_pre, avail, asset_dispatch, remaining, d_prios,
                   d_last, d_result>>

\* the code after the loop
DFinish ==
    /\ d_pc = "finish"
    /\ d_result' = Finish(d_pre, avail, d_tot, d_it, d_tot.converged)
    /\ d_pc' = "done"
    /\ UNCHANGED <<d_in, d_pre, avail, asset_dispatch, remaining, d_prios,
                   d_last, gross_target, d_it, d_tot>>

DNext == DPrepare \/ DAssignMin \/ DProcessGroup \/ DCreateEntries \/ DFinish

\* the stepwise run returns what the operator computes
DStepwiseAgrees == d_pc = "done" => d_result = distribute_by_priority(d_in)

----------------------------------------------------------------------------
(* Lookup curves: get_stg_extraction_for_load and                          *)
(* get_hrsg_heat_rate_for_load (power_asset_queries.py),                   *)
(* get_heat_rate_for_load (power_service.py).  A curve is a sequence of    *)
(* rows [x, y] sorted by x, y being the sequence of the row's y columns.   *)

CurveMin(curve) == curve[1].x

CurveMax(curve) == curve[Len(curve)].x

\* the first row with the given x
RowAt(curve, x) ==
    curve[CHOOSE i \in DOMAIN curve :
              curve[i].x = x /\ \A j \in DOMAIN curve : curve[j].x = x => i <= j]

\* "Highest load below target"
LowerRow(curve, x) ==
    curve[CHOOSE i \in DOMAIN curve :
              curve[i].x < x /\ \A j \in DOMAIN curve : curve[j].x < x => j <= i]

\* "Lowest load above target"
UpperRow(curve, x) ==
    curve[CHOOSE i \in DOMAIN curve :
              curve[i].x > x /\ \A j \in DOMAIN curve : curve[j].x > x => i <= j]

\* variant: an interior query takes the values of the upper row
Interpolate_Upper(lower, upper, x) == upper.y

\* lower_val + factor * (upper_val - lower_val) for every y column
Interpolate(lower, upper, x) ==
    [c \in DOMAIN lower.y |->
        lower.y[c] + RoundDiv((x - lower.x) * (upper.y[c] - lower.y[c]),
                              upper.x - lower.x)]

Zeros(n) == [c \in 1..n |-> 0]

Nones(n) == [c \in 1..n |-> None]

\* what a lookup returns; a key the function does not return is "absent"
Found(y, load, interpolated, clamped, error) ==
    [outcome |-> "returned", y |-> y, load |-> load, interpolated |-> interpolated,
     clamped |-> clamped, error |-> error]

\* columns SLExtFlowTPH and SMBleedFlowTPH over LoadMW
get_stg_extraction_for_load(stg_load_mw, lookup_df) ==
    IF lookup_df = <<>> THEN Found(Zeros(2), 0, FALSE, "absent", "absent")
    ELSE IF stg_load_mw <= 0 THEN Found(Zeros(2), 0, FALSE, "absent", "absent")
    ELSE IF stg_load_mw < CurveMin(lookup_df)
    THEN Found(RowAt(lookup_df, CurveMin(lookup_df)).y, CurveMin(lookup_df),
               FALSE, "min", "absent")
    ELSE IF stg_load_mw > CurveMax(lookup_df)
    THEN Found(RowAt(lookup_df, CurveMax(lookup_df)).y, CurveMax(lookup_df),
               FALSE, "max", "absent")
    ELSE IF \E i \in DOMAIN lookup_df : lookup_df[i].x = stg_load_mw
    THEN Found(RowAt(lookup_df, stg_load_mw).y, stg_load_mw, FALSE, "absent", "absent")
    ELSE Found(Interpolate(LowerRow(lookup_df, stg_load_mw),
                           UpperRow(lookup_df, stg_load_mw), stg_load_mw),
               stg_load_mw, TRUE, "absent", "absent")

\* columns HeatRate and FreeSteamFactor over GTLoad; returns a pair
get_heat_rate_for_load(heat_df, load_mw) ==
    IF heat_df = <<>> THEN Found(Nones(2), "absent", "absent", "absent", "absent")
    ELSE IF load_mw <= CurveMin(heat_df)
    THEN Found(heat_df[1].y, "absent", "absent", "absent", "absent")
    ELSE IF load_mw >= CurveMax(heat_df)
    THEN Found(heat_df[Len(heat_df)].y, "absent", "absent", "absent", "absent")
    ELSE IF \E i \in DOMAIN heat_df : heat_df[i].x = load_mw
    THEN Found(RowAt(heat_df, load_mw).y, "absent", "absent", "absent", "absent")
    ELSE Found(Interpolate(LowerRow(heat_df, load_mw), UpperRow(heat_df, load_mw),
                           load_mw),
               "absent", "absent", "absent", "absent")

\* column HeatRate over HRSGLoad, for the rows of one HRSG
get_hrsg_heat_rate_for_load(hrsg_load_tph, hrsg_df) ==
    IF hrsg_df = <<>>
    THEN Found(Zeros(1), hrsg_load_tph, FALSE, "absent", "No lookup data available")
    ELSE IF hrsg_load_tph <= 0 THEN Found(Zeros(1), 0, FALSE, "absent", "absent")
    ELSE IF hrsg_load_tph <= CurveMin(hrsg_df)
    THEN Found(<<RowAt(hrsg_df, CurveMin(hrsg_df)).y[1]>>, CurveMin(hrsg_df),
               FALSE, "absent", "absent")
    ELSE IF hrsg_load_tph >= CurveMax(hrsg_df)
    THEN Found(<<RowAt(hrsg_df, CurveMax(hrsg_df)).y[1]>>, CurveMax(hrsg_df),
               FALSE, "absent", "absent")
    ELSE IF \E i \in DOMAIN hrsg_df : hrsg_df[i].x = hrsg_load_tph
    THEN Found(<<RowAt(hrsg_df, hrsg_load_tph).y[1]>>, hrsg_load_tph,
               FALSE, "absent", "absent")
    ELSE Found(<<Interpolate(LowerRow(hrsg_df, hrsg_load_tph),
                             UpperRow(hrsg_df, hrsg_load_tph), hrsg_load_tph)[1]>>,
               hrsg_load_tph, TRUE, "absent", "absent")

----------------------------------------------------------------------------
(* Steam header balance, steam_service.py (fixed ratios).  Norms are per    *)
(* ten thousand.                                                            *)

NormBase == 10000

NORM_LP_FROM_PRDS == 3866

NORM_LP_FROM_STG == 6134

NORM_MP_FROM_PRDS == 7092

NORM_MP_FROM_STG == 2908

NORM_HP_FROM_PRDS == 10000

NORM_SHP_PER_LP_STG == 4800

NORM_MP_PER_LP_PRDS == 7500

NORM_SHP_PER_MP_STG == 6900

NORM_SHP_PER_MP_PRDS == 9100

NORM_SHP_PER_HP_PRDS == 9232

NORM_LP_PER_BFW == 1450

Times(x, norm) == RoundMulDiv(x, norm, NormBase)

calculate_lp_balance(lp_process, lp_fixed, bfw_ufu) ==
    LET lp_ufu == Times(bfw_ufu, NORM_LP_PER_BFW)
        lp_total == lp_process + lp_fixed + lp_ufu
        lp_from_prds == Times(lp_total, NORM_LP_FROM_PRDS)
        lp_from_stg == Times(lp_total, NORM_LP_FROM_STG)
    IN [lp_total |-> lp_total,
        lp_from_prds |-> lp_from_prds,
        lp_from_stg |-> lp_from_stg,
        shp_for_stg_lp |-> Times(lp_from_stg, NORM_SHP_PER_LP_STG),
        mp_for_prds_lp |-> Times(lp_from_prds, NORM_MP_PER_LP_PRDS)]

calculate_mp_balance(mp_process, mp_fixed, mp_for_lp) ==
    LET mp_total == mp_process + mp_fixed + mp_for_lp
        mp_from_prds == Times(mp_total, NORM_MP_FROM_PRDS)
        mp_from_stg == Times(mp_total, NORM_MP_FROM_STG)
        shp_for_stg_mp == Times(mp_from_stg, NORM_SHP_PER_MP_STG)
        shp_for_prds_mp == Times(mp_from_prds, NORM_SHP_PER_MP_PRDS)
    IN [mp_total |-> mp_total,
        mp_from_prds |-> mp_from_prds,
        mp_from_stg |-> mp_from_stg,
        shp_for_stg_mp |-> shp_for_stg_mp,
        shp_for_prds_mp |-> shp_for_prds_mp,
        shp_from_mp_chain |-> shp_for_stg_mp + shp_for_prds_mp]

\* calculate_lp_balance_stg_based without the cap at the demand
calculate_lp_balance_stg_based_Uncapped(lp_process, lp_fixed, bfw_ufu, stg_lp_extraction_tph, stg_operating_hours) ==
    LET lp_ufu == Times(bfw_ufu, NORM_LP_PER_BFW)
        lp_total == lp_process + lp_fixed + lp_ufu
        lp_from_stg_available == stg_lp_extraction_tph * stg_operating_hours
        lp_from_stg == lp_from_stg_available
        lp_from_prds == Max2(0, lp_total - lp_from_stg)
    IN [lp_total |-> lp_total,
        lp_from_prds |-> lp_from_prds,
        lp_from_stg |-> lp_from_stg,
        lp_from_stg_available |-> lp_from_stg_available,
        lp_stg_excess |-> Max2(0, lp_from_stg_available - lp_total),
        shp_for_stg_lp |-> Times(lp_from_stg, NORM_SHP_PER_LP_STG),
        mp_for_prds_lp |-> Times(lp_from_prds, NORM_MP_PER_LP_PRDS)]

\* load-based mode: the STG supplies extraction rate x hours, capped at the
\* demand; the PRDS supplies the rest
calculate_lp_balance_stg_based(lp_process, lp_fixed, bfw_ufu, stg_lp_extraction_tph, stg_operating_hours) ==
    LET lp_ufu == Times(bfw_ufu, NORM_LP_PER_BFW)
        lp_total == lp_process + lp_fixed + lp_ufu
        lp_from_stg_available == stg_lp_extraction_tph * stg_operating_hours
        lp_from_stg == Min2(lp_from_stg_available, lp_total)
        lp_from_prds == Max2(0, lp_total - lp_from_stg)
    IN [lp_total |-> lp_total,
        lp_from_prds |-> lp_from_prds,
        lp_from_stg |-> lp_from_stg,
        lp_from_stg_available |-> lp_from_stg_available,
        lp_stg_excess |-> Max2(0, lp_from_stg_available - lp_total),
        shp_for_stg_lp |-> Times(lp_from_stg, NORM_SHP_PER_LP_STG),
        mp_for_prds_lp |-> Times(lp_from_prds, NORM_MP_PER_LP_PRDS)]

calculate_mp_balance_stg_based(mp_process, mp_fixed, mp_for_lp, stg_mp_extraction_tph, stg_operating_hours) ==
    LET mp_total == mp_process + mp_fixed + mp_for_lp
        mp_from_stg_available == stg_mp_extraction_tph * stg_operating_hours
        mp_from_stg == Min2(mp_from_stg_available, mp_total)
        mp_from_prds == Max2(0, mp_total - mp_from_stg)
        shp_for_stg_mp == Times(mp_from_stg, NORM_SHP_PER_MP_STG)
        shp_for_prds_mp == Times(mp_from_prds, NORM_SHP_PER_MP_PRDS)
    IN [mp_total |-> mp_total,
        mp_from_prds |-> mp_from_prds,
        mp_from_stg |-> mp_from_stg,
        mp_from_stg_available |-> mp_from_stg_available,
        mp_stg_excess |-> Max2(0, mp_from_stg_available - mp_total),
        shp_for_stg_mp |-> shp_for_stg_mp,
        shp_for_prds_mp |-> shp_for_prds_mp,
        shp_from_mp_chain |-> shp_for_stg_mp + shp_for_prds_mp]

calculate_hp_balance(hp_process, hp_fixed) ==
    LET hp_total == hp_process + hp_fixed
        hp_from_prds == Times(hp_total, NORM_HP_FROM_PRDS)
    IN [hp_total |-> hp_total,
        hp_from_prds |-> hp_from_prds,
        shp_for_hp_prds |-> Times(hp_from_prds, NORM_SHP_PER_HP_PRDS)]

calculate_shp_balance(shp_process, shp_fixed, shp_for_stg_lp, shp_from_mp_chain, shp_for_hp_prds, stg_shp_power) ==
    LET shp_from_headers == shp_for_stg_lp + shp_from_mp_chain + shp_for_hp_prds
        shp_total_without_power == shp_process + shp_fixed + shp_from_headers
    IN [shp_from_headers |-> shp_from_headers,
        shp_total_without_power |-> shp_total_without_power,
        stg_shp_power |-> stg_shp_power,
        shp_total_demand |-> shp_total_without_power + stg_shp_power]

\* st: the steam demands the caller passes (lp_process ... bfw_ufu)
calculate_steam_balance(st, stg_shp_power) ==
    LET lp == calculate_lp_balance(st.lp_process, st.lp_fixed, st.bfw_ufu)
        mp == calculate_mp_balance(st.mp_process, st.mp_fixed, lp.mp_for_prds_lp)
        hp == calculate_hp_balance(st.hp_process, st.hp_fixed)
        shp == calculate_shp_balance(st.shp_process, st.shp_fixed, lp.shp_for_stg_lp,
                                     mp.shp_from_mp_chain, hp.shp_for_hp_prds,
                                     stg_shp_power)
    IN [lp_balance |-> lp, mp_balance |-> mp, hp_balance |-> hp, shp_balance |-> shp,
        total_shp_demand |-> shp.shp_total_demand]

----------------------------------------------------------------------------
(* HRSG availability, SHP capacity and the excess at minimum firing *)

HRSG_MIN_CAPACITY == 60

HRSG_MAX_CAPACITY == 136

\* efficiency 1.03, per cent
HRSG_EFFICIENCY == 103

\* HRSG_ASSETS: HRSGn is linked to GTn
HRSG_ASSETS == {1, 2, 3}

\* the dispatch entry of the linked GT, if it produces
LinkedGt(plan, h) ==
    {i \in DOMAIN plan : plan[i].kind = "GT" /\ plan[i].num = h /\ plan[i].GrossMWh > 0}

\* free steam of a GT: FreeSteam factor (MT per MWh) x gross generation
FreeSteamMt(entry) ==
    IF entry.FreeSteam # None THEN RoundMulDiv(entry.GrossMWh, entry.FreeSteam, Scale)
    ELSE 0

get_hrsg_availability_from_dispatch(plan) ==
    [h \in HRSG_ASSETS |->
       IF LinkedGt(plan, h) # {}
       THEN [is_available |-> TRUE,
             operational_hours |-> plan[CHOOSE i \in LinkedGt(plan, h) : TRUE].Hours,
             priority |-> plan[CHOOSE i \in LinkedGt(plan, h) : TRUE].Priority,
             free_steam_mt |-> FreeSteamMt(plan[CHOOSE i \in LinkedGt(plan, h) : TRUE])]
       ELSE [is_available |-> FALSE, operational_hours |-> 0, priority |-> 999,
             free_steam_mt |-> 0]]

\* variant: the free steam counts as SHP capacity
calculate_shp_generation_capacity_WithFreeSteam(hrsg_availability) ==
    LET on == {h \in HRSG_ASSETS : hrsg_availability[h].is_available}
        free == [h \in HRSG_ASSETS |->
                   IF h \in on THEN hrsg_availability[h].free_steam_mt ELSE 0]
        supp_min == [h \in HRSG_ASSETS |->
                       IF h \in on
                       THEN (HRSG_MIN_CAPACITY * hrsg_availability[h].operational_hours
                             * HRSG_EFFICIENCY * Scale) \div 100
                       ELSE 0]
        supp_max == [h \in HRSG_ASSETS |->
                       IF h \in on
                       THEN (HRSG_MAX_CAPACITY * hrsg_availability[h].operational_hours
                             * HRSG_EFFICIENCY * Scale) \div 100
                       ELSE 0]
    IN [available_hrsgs |-> on,
        free_steam_mt |-> free,
        total_free_steam_mt |-> SumIdx(free, HRSG_ASSETS),
        supp_min_mt_month |-> supp_min,
        supp_max_mt_month |-> supp_max,
        total_min_shp_capacity |-> SumIdx(free, HRSG_ASSETS) + SumIdx(supp_min, HRSG_ASSETS),
        total_max_shp_capacity |-> SumIdx(free, HRSG_ASSETS) + SumIdx(supp_max, HRSG_ASSETS)]

calculate_shp_generation_capacity(hrsg_availability) ==
    LET on == {h \in HRSG_ASSETS : hrsg_availability[h].is_available}
        free == [h \in HRSG_ASSETS |->
                   IF h \in on THEN hrsg_availability[h].free_steam_mt ELSE 0]
        supp_min == [h \in HRSG_ASSETS |->
                       IF h \in on
                       THEN (HRSG_MIN_CAPACITY * hrsg_availability[h].operational_hours
                             * HRSG_EFFICIENCY * Scale) \div 100
                       ELSE 0]
        supp_max == [h \in HRSG_ASSETS |->
                       IF h \in on
                       THEN (HRSG_MAX_CAPACITY * hrsg_availability[h].operational_hours
                             * HRSG_EFFICIENCY * Scale) \div 100
                       ELSE 0]
    IN [available_hrsgs |-> on,
        free_steam_mt |-> free,
        total_free_steam_mt |-> SumIdx(free, HRSG_ASSETS),
        supp_min_mt_month |-> supp_min,
        supp_max_mt_month |-> supp_max,
        total_min_shp_capacity |-> SumIdx(supp_min, HRSG_ASSETS),
        total_max_shp_capacity |-> SumIdx(supp_max, HRSG_ASSETS)]

\* variant: the excess is measured from the maximum firing
ExcessSteam_FromMax(shp_capacity, shp_demand) ==
    IF shp_capacity.available_hrsgs = {} THEN 0
    ELSE IF shp_demand > shp_capacity.total_min_shp_capacity THEN 0
    ELSE shp_capacity.total_max_shp_capacity - shp_demand

\* dispatch_hrsg_load, the excess: minimum firing of the available HRSGs
\* above the SHP demand
ExcessSteam(shp_capacity, shp_demand) ==
    IF shp_capacity.available_hrsgs = {} THEN 0
    ELSE IF shp_demand > shp_capacity.total_min_shp_capacity THEN 0
    ELSE shp_capacity.total_min_shp_capacity - shp_demand

\* dispatch_hrsg_load: the priority of an HRSG is that of its linked GT in
\* the power dispatch, 999 if there is none
HrsgPriority(plan, h) ==
    LET linked == {i \in DOMAIN plan : plan[i].kind = "GT" /\ plan[i].num = h}
    IN IF linked = {} THEN 999
       ELSE plan[CHOOSE i \in linked : \A j \in linked : i <= j].Priority

\* CASE A loop: the priority groups in ascending order share the firing
\* needed above the minimum; each unit of a group takes
\* group_allocation / len(group), capped at its own headroom
RECURSIVE HrsgIncrease(_, _, _, _, _)
HrsgIncrease(prios, remaining_additional, dispatched, cap, prio) ==
    IF prios = <<>> \/ remaining_additional <= 0
    THEN [dispatched |-> dispatched, remaining_additional |-> remaining_additional]
    ELSE LET group == {h \in cap.available_hrsgs : prio[h] = Head(prios)}
             hrsg_available == [h \in HRSG_ASSETS |->
                                  cap.supp_max_mt_month[h] - cap.supp_min_mt_month[h]]
             group_available == SumIdx(hrsg_available, group)
             group_allocation == Min2(remaining_additional, group_available)
             hrsg_share == RoundDiv(group_allocation, Cardinality(group))
         IN IF group_available <= 0
            THEN HrsgIncrease(Tail(prios), remaining_additional, dispatched, cap, prio)
            ELSE HrsgIncrease(Tail(prios), remaining_additional - group_allocation,
                     [h \in HRSG_ASSETS |->
                        IF h \in group /\ hrsg_available[h] > 0
                        THEN cap.supp_min_mt_month[h]
                             + Min2(hrsg_share, hrsg_available[h])
                        ELSE dispatched[h]],
                     cap, prio)

dispatch_hrsg_load(power_dispatch, shp_demand, shp_capacity) ==
    LET on == shp_capacity.available_hrsgs
        prio == [h \in HRSG_ASSETS |-> HrsgPriority(power_dispatch, h)]
        total_min_supp == SumIdx(shp_capacity.supp_min_mt_month, on)
        total_max_supp == SumIdx(shp_capacity.supp_max_mt_month, on)
        min_supply == total_min_supp
        at_min == [h \in HRSG_ASSETS |->
                     IF h \in on THEN shp_capacity.supp_min_mt_month[h] ELSE 0]
        additional_needed == shp_demand - total_min_supp
        raised == HrsgIncrease(SortedSet({prio[h] : h \in on}), additional_needed,
                               at_min, shp_capacity, prio)
        base == [available |-> on,
                 priority |-> prio,
                 total_free_steam_mt |-> shp_capacity.total_free_steam_mt,
                 min_supply_mt |-> min_supply,
                 max_supply_mt |-> total_max_supp,
                 shp_demand_mt |-> shp_demand,
                 can_meet_demand |-> TRUE,
                 excess_steam_mt |-> 0,
                 shortfall_mt |-> 0,
                 dispatched_supp_mt |-> at_min,
                 total_dispatched_supp_mt |-> SumIdx(at_min, on)]
    IN IF on = {}
       THEN [base EXCEPT !.can_meet_demand = shp_demand <= 0]
       ELSE IF shp_demand > min_supply
       THEN [base EXCEPT
               !.can_meet_demand = ~(raised.remaining_additional > 0),
               !.shortfall_mt = Max2(0, raised.remaining_additional),
               !.dispatched_supp_mt = raised.dispatched,
               !.total_dispatched_supp_mt = SumIdx(raised.dispatched, on)]
       ELSE [base EXCEPT !.excess_steam_mt = ExcessSteam(shp_capacity, shp_demand)]

----------------------------------------------------------------------------
(* Utility aux power estimate of an iteration, iteration_service.py.       *)
(* The fixed consumptions are in 1/10000 MWh.                               *)

\* 3.56 MT of SHP per MWh of STG power, per cent
STG_SHP_PER_MWH == 356

calculate_stg_shp_demand(stg_gross_mwh) == RoundMulDiv(stg_gross_mwh, STG_SHP_PER_MWH, 100)

BFW_FIXED == 300

DM_PROCESS == 54779

\* per running GT: CW2 108 KM3 at 250 kWh, air 30960 NM3 at 0.165 kWh
UTIL_PER_GT == 321084

\* for the STG: CW2 2376 KM3, air 41040 NM3
UTIL_FOR_STG == 6007716

\* per available HRSG: air 453600 NM3
UTIL_PER_HRSG == 748440

\* CW1 15194 KM3 at 245 kWh
UTIL_CW1 == 37225300

\* CW2 108 + 175 + 5786 * 0.261 + 9016 KM3 at 250 kWh
UTIL_CW2_FIXED == 27022865

\* air 1650 + 1650 + 6095102 NM3 at 0.165 kWh
UTIL_AIR_FIXED == 10062363

\* oxygen 5786 MT at 968.65 kWh
UTIL_OXYGEN == 56046089

\* effluent 243000 M3 at 3.54 kWh
UTIL_EFFLUENT == 8602200

UtilityPower(st, shp_demand, gt_count, stg_available, hrsg_count) ==
    LET lp == calculate_lp_balance(st.lp_process, st.lp_fixed, st.bfw_ufu)
        mp == calculate_mp_balance(st.mp_process, st.mp_fixed, lp.mp_for_prds_lp)
        bfw_total_estimate ==
            RoundMulDiv(shp_demand, 1024, 1000) + RoundMulDiv(st.hp_process, 768, 10000)
            + RoundMulDiv(mp.mp_total, 9, 100) + RoundMulDiv(lp.lp_total, 25, 100)
            + BFW_FIXED * Scale
        dm_total_estimate ==
            RoundMulDiv(bfw_total_estimate, 86, 100) + DM_PROCESS * Scale
        total ==
            RoundMulDiv(bfw_total_estimate, 95, 100)
            + RoundMulDiv(dm_total_estimate, 121, 1000)
            + UTIL_CW1 + UTIL_CW2_FIXED + UTIL_AIR_FIXED + UTIL_OXYGEN + UTIL_EFFLUENT
            + gt_count * UTIL_PER_GT
            + (IF stg_available THEN UTIL_FOR_STG ELSE 0)
            + hrsg_count * UTIL_PER_HRSG
    IN (total + 50) \div 100

----------------------------------------------------------------------------
(* usd_iterate: constants and the data of a run *)

USD_ITERATION_LIMIT == 50

\* 0.0000001 MWh, below one unit: the aux values must be equal
USD_TOLERANCE == 0

\* "if aux_power_error < 10.0"
NEAR_CONVERGED_MWH == 10

\* "if actual_stg_increase > 50"
MIN_STG_INCREASE_MWH == 50

\* "elif excess_steam_mt > 100"
UNABSORBED_EXCESS_MT == 100

\* "if actual_recovery > 0.1"
RECOVERY_THRESHOLD == Scale \div 10

\* the steam demands of the test call; the SHP process demand varies
SteamDemand(shp_process) ==
    [lp_process |-> 2010957, lp_fixed |-> 516951,
     mp_process |-> MWh(14030), mp_fixed |-> MWh(518),
     hp_process |-> MWh(4972), hp_fixed |-> 0,
     shp_process |-> shp_process, shp_fixed |-> 0,
     bfw_ufu |-> MWh(300)]

\* an STG ahead of the GTs, the last GT with no minimum load
PlantLateGt ==
    << Row("STG", "STG", 0, 1, 5, 25, 720, 2),
       Row("GT1", "GT", 1, 2, 5, 22, 720, 14),
       Row("GT2", "GT", 2, 3, 5, 22, 720, 14),
       Row("GT3", "GT", 3, 4, 0, 22, 720, 14) >>

\* the STG first, the GTs have no minimum load and run only when needed
PlantGtOnDemand ==
    << Row("STG", "STG", 0, 1, 5, 25, 720, 2),
       Row("GT1", "GT", 1, 2, 0, 22, 720, 14),
       Row("GT2", "GT", 2, 3, 0, 22, 720, 14),
       Row("GT3", "GT", 3, 4, 0, 22, 720, 14) >>

UsdDemandStep == MWh(10000)

UsdDemandLevels == 5

\* half a MWh more than the three GTs of PlantScenarioA can generate
JustAboveScenarioA == MWh(3 * 22 * 720) + Scale \div 2

\* an STG extraction lookup table: LP and MP extraction (TPH) over LoadMW
StgExtractionLookup ==
    << [x |-> 5 * Scale, y |-> <<20 * Scale, 10 * Scale>>],
       [x |-> 15 * Scale, y |-> <<60 * Scale, 30 * Scale>>],
       [x |-> 25 * Scale, y |-> <<90 * Scale, 50 * Scale>>] >>

UsdInputs ==
    [fym_found : BOOLEAN,
     stg_extraction_lookup : {<<>>, StgExtractionLookup},
     plant : {PlantStgFirst, PlantGtTier, PlantScenarioA, PlantLateGt,
              PlantGtOnDemand},
     base_demand : {k * UsdDemandStep : k \in 0..UsdDemandLevels}
                      \cup {MWh(1000), MWh(4000), JustAboveScenarioA},
     import_mw : {0, 10},
     steam : {SteamDemand(MWh(x)) :
                 x \in {0, 20975, 150000, 250000, 265000, 300000}}]

NoIteration ==
    [iteration |-> 0, stg_limit_mwh |-> None,
     stg_gross_mwh |-> 0, gt_gross_mwh |-> 0, gt_available_reduction |-> 0,
     stg_db_max_mwh |-> 0,
     total_gross_mwh |-> 0, total_net_mwh |-> 0, total_demand_mwh |-> 0,
     power_aux_mwh |-> 0, stg_shp_required |-> 0,
     shp_demand |-> 0, base_shp_demand |-> 0,
     extraction_mode |-> "none", shp_for_stg_extraction |-> 0, shp_for_prds |-> 0,
     min_shp_capacity |-> 0, max_shp_capacity |-> 0,
     shp_deficit |-> 0, can_meet_shp |-> FALSE, excess_steam_mt |-> 0,
     aux_power_error |-> 0, power_converged |-> FALSE, shp_converged |-> FALSE,
     stg_increased |-> FALSE, actual_stg_increase |-> 0, balanced |-> FALSE,
     actual_recovery |-> 0, recovered |-> FALSE, reduced |-> FALSE,
     stg_reduction_for_shp |-> 0,
     action |-> "None", status |-> "PENDING"]

NoFinal == [iteration |-> 0, dispatch |-> <<>>, shp_demand |-> 0,
            max_shp_capacity |-> 0, utility_aux_mwh |-> 0]

NoPowerResult == [kind |-> "none"]

UInit ==
    /\ u_pc = "setup"
    /\ u_in \in UsdInputs
    /\ iteration = 0
    /\ iteration_history = 0
    /\ converged = FALSE
    /\ previous_utility_aux_mwh = 0
    /\ current_utility_aux_mwh = 0
    /\ stg_reduction_mwh = 0
    /\ import_compensation_mwh = 0
    /\ stg_original_max_mwh = None
    /\ stg_steam_limit_mwh = None
    /\ stg_min_override_mwh = None
    /\ gt_reduction_for_balance_mwh = 0
    /\ power_initially_converged = FALSE
    /\ power_result = NoPowerResult
    /\ cur = NoIteration
    /\ prev = NoIteration
    /\ final = NoFinal
    /\ u_result = NoResult

\* no run of usd_iterate
UIdle ==
    /\ u_pc = "idle"
    /\ u_in = NoPre
    /\ iteration = 0
    /\ iteration_history = 0
    /\ converged = FALSE
    /\ previous_utility_aux_mwh = 0
    /\ current_utility_aux_mwh = 0
    /\ stg_reduction_mwh = 0
    /\ import_compensation_mwh = 0
    /\ stg_original_max_mwh = None
    /\ stg_steam_limit_mwh = None
    /\ stg_min_override_mwh = None
    /\ gt_reduction_for_balance_mwh = 0
    /\ power_initially_converged = FALSE
    /\ power_result = NoPowerResult
    /\ cur = NoIteration
    /\ prev = NoIteration
    /\ final = NoFinal
    /\ u_result = NoResult

\* no stepwise call of distribute_by_priority
DIdle ==
    /\ d_pc = "idle"
    /\ d_in = NoPre
    /\ d_pre = NoPre
    /\ avail = <<>>
    /\ asset_dispatch = <<>>
    /\ remaining = 0
    /\ d_prios = <<>>
    /\ d_last = NoGroup
    /\ gross_target = 0
    /\ d_it = 0
    /\ d_tot = NoTotals
    /\ d_result = NoResult

----------------------------------------------------------------------------
(* usd_iterate: the steps of an iteration *)

\* the STG limit passed to the dispatch
StgLimit ==
    LET by_reduction ==
            IF stg_reduction_mwh > 0 /\ stg_original_max_mwh # None
            THEN Max2(0, stg_original_max_mwh - stg_reduction_mwh) ELSE None
    IN IF stg_steam_limit_mwh = None THEN by_reduction
       ELSE IF by_reduction = None THEN stg_steam_limit_mwh
       ELSE Min2(by_reduction, stg_steam_limit_mwh)

StgEntries(plan) == {i \in DOMAIN plan : plan[i].kind = "STG"}

GtEntries(plan) == {i \in DOMAIN plan : plan[i].kind = "GT"}

\* the loop over current_dispatch keeps the last STG entry
StgGross(plan) ==
    IF StgEntries(plan) = {} THEN 0
    ELSE plan[CHOOSE i \in StgEntries(plan) : \A j \in StgEntries(plan) : j <= i].GrossMWh

\* CapacityMW * Hours of the first STG entry
StgDbMax(plan) ==
    IF StgEntries(plan) = {} THEN 0
    ELSE LET e == plan[CHOOSE i \in StgEntries(plan) : \A j \in StgEntries(plan) : i <= j]
         IN e.CapacityMW * e.Hours * Scale

GtGross(plan) == SumIdx([i \in DOMAIN plan |-> plan[i].GrossMWh], GtEntries(plan))

\* sum of max(0, gt_current - gt_min)
GtAvailableReduction(plan) ==
    SumIdx([i \in DOMAIN plan |->
              Max2(0, plan[i].GrossMWh - plan[i].MinMW * plan[i].Hours * Scale)],
           GtEntries(plan))

ErrorResult(error_type) ==
    [success |-> FALSE, error_type |-> error_type, converged |-> FALSE,
     iterations_used |-> iteration_history, final_iteration |-> final.iteration,
     final_dispatch |-> final.dispatch, final_shp_demand |-> final.shp_demand,
     final_power_aux_mwh |-> 0, stg_reduction_mwh |-> stg_reduction_mwh,
     import_compensation_mwh |-> import_compensation_mwh]

\* what the iteration reads off the dispatch plan
ReadPlan(it, stg_limit_mwh, pr) ==
    [NoIteration EXCEPT
       !.iteration = it,
       !.stg_limit_mwh = stg_limit_mwh,
       !.stg_gross_mwh = StgGross(pr.dispatchPlan),
       !.gt_gross_mwh = GtGross(pr.dispatchPlan),
       !.gt_available_reduction = GtAvailableReduction(pr.dispatchPlan),
       !.stg_db_max_mwh = StgDbMax(pr.dispatchPlan),
       !.total_gross_mwh = pr.totalGrossGeneration,
       !.total_net_mwh = pr.totalNetGeneration,
       !.total_demand_mwh = pr.totalDemandUnits,
       !.power_aux_mwh = pr.totalAuxConsumption,
       !.stg_shp_required = calculate_stg_shp_demand(StgGross(pr.dispatchPlan))]

\* STEP 0: the STG extraction lookup table decides the extraction mode
use_stg_load_based == u_in.stg_extraction_lookup # <<>>

\* STEPS 0 to 2 and the initial values of STEP 3: the tables are fetched, an
\* empty table only selects the fixed ratios, and the loop is entered
USetup ==
    /\ u_pc = "setup"
    /\ u_pc' = "dispatch"
    /\ iteration' = 1
    /\ UNCHANGED dvars
    /\ UNCHANGED <<u_in, iteration_history, converged,
                   previous_utility_aux_mwh, current_utility_aux_mwh,
                   stg_reduction_mwh, import_compensation_mwh, stg_original_max_mwh,
                   stg_steam_limit_mwh, stg_min_override_mwh,
                   gt_reduction_for_balance_mwh, power_initially_converged,
                   power_result, cur, prev, final, u_result>>

\* the arguments of the iteration's call of distribute_by_priority
DispatchArgs ==
    [fym_found |-> u_in.fym_found, plant |-> u_in.plant, base_demand |-> u_in.base_demand,
     additional_demand_mwh |-> previous_utility_aux_mwh,
     import_mw |-> u_in.import_mw,
     stg_max_mwh |-> StgLimit,
     stg_min_override_mwh |-> stg_min_override_mwh,
     gt_reduction_mwh |-> gt_reduction_for_balance_mwh]

\* STEP 3a: dispatch power
UDispatch ==
    /\ u_pc = "dispatch"
    /\ power_result' = distribute_by_priority(DispatchArgs)
    /\ u_pc' = "extract"
    /\ UNCHANGED dvars
    /\ UNCHANGED <<u_in, iteration, iteration_history, converged,
                   previous_utility_aux_mwh, current_utility_aux_mwh,
                   stg_reduction_mwh, import_compensation_mwh, stg_original_max_mwh,
                   stg_steam_limit_mwh, stg_min_override_mwh,
                   gt_reduction_for_balance_mwh, power_initially_converged,
                   cur, prev, final, u_result>>

\* variant: a dispatch without capacity is returned as a plain dispatch error
UExtract_NoInsufficient ==
    /\ u_pc = "extract"
    /\ IF power_result.kind \in {"insufficientCapacityAfterImport"}
       THEN /\ u_result' = ErrorResult("POWER_INSUFFICIENT")
            /\ u_pc' = "done"
            /\ UNCHANGED <<cur, stg_original_max_mwh>>
       ELSE IF ~power_result.hasPlan
       THEN /\ u_result' = ErrorResult("POWER_ERROR")
            /\ u_pc' = "done"
            /\ UNCHANGED <<cur, stg_original_max_mwh>>
       ELSE /\ u_pc' = "steam"
            /\ u_result' = u_result
            /\ cur' = ReadPlan(iteration, StgLimit, power_result)
            /\ stg_original_max_mwh' =
                  IF stg_original_max_mwh = None /\ StgGross(power_result.dispatchPlan) > 0
                  THEN StgDbMax(power_result.dispatchPlan) ELSE stg_original_max_mwh
    /\ UNCHANGED dvars
    /\ UNCHANGED <<u_in, iteration, iteration_history, converged,
                   previous_utility_aux_mwh, current_utility_aux_mwh,
                   stg_reduction_mwh, import_compensation_mwh, stg_steam_limit_mwh,
                   stg_min_override_mwh, gt_reduction_for_balance_mwh,
                   power_initially_converged, power_result, prev, final>>

\* the early returns on a failed dispatch, and what is read off the plan
UExtract ==
    /\ u_pc = "extract"
    /\ IF power_result.kind \in {"insufficientCapacity", "insufficientCapacityAfterImport"}
       THEN /\ u_result' = ErrorResult("POWER_INSUFFICIENT")
            /\ u_pc' = "done"
            /\ UNCHANGED <<cur, stg_original_max_mwh>>
       ELSE IF ~power_result.hasPlan
       THEN /\ u_result' = ErrorResult("POWER_ERROR")
            /\ u_pc' = "done"
            /\ UNCHANGED <<cur, stg_original_max_mwh>>
       ELSE /\ u_pc' = "steam"
            /\ u_result' = u_result
            /\ cur' = ReadPlan(iteration, StgLimit, power_result)
            /\ stg_original_max_mwh' =
                  IF stg_original_max_mwh = None /\ StgGross(power_result.dispatchPlan) > 0
                  THEN StgDbMax(power_result.dispatchPlan) ELSE stg_original_max_mwh
    /\ UNCHANGED dvars
    /\ UNCHANGED <<u_in, iteration, iteration_history, converged,
                   previous_utility_aux_mwh, current_utility_aux_mwh,
                   stg_reduction_mwh, import_compensation_mwh, stg_steam_limit_mwh,
                   stg_min_override_mwh, gt_reduction_for_balance_mwh,
                   power_initially_converged, power_result, prev, final>>

\* get_stg_operating_hours: the hours of the STG in the period
StgOpHours(plant) ==
    IF \E i \in DOMAIN plant : IsSTG(plant[i])
    THEN plant[CHOOSE i \in DOMAIN plant : IsSTG(plant[i])].opHours
    ELSE 0

\* STEP 3a.1: the LP and MP balance of the extraction mode in force
ExtractionInForce(st, stg_gross_mwh, plant, lookup_df) ==
    LET stg_op_hours == StgOpHours(plant)
        stg_load_mw == IF stg_op_hours > 0 THEN RoundDiv(stg_gross_mwh, stg_op_hours)
                       ELSE 0
        extraction_data == get_stg_extraction_for_load(stg_load_mw, lookup_df)
        lp_based == calculate_lp_balance_stg_based(st.lp_process, st.lp_fixed, st.bfw_ufu,
                                                   extraction_data.y[1], stg_op_hours)
        lp_fixed_ratio == calculate_lp_balance(st.lp_process, st.lp_fixed, st.bfw_ufu)
    IN IF lookup_df # <<>> /\ stg_load_mw > 0
       THEN [mode |-> "load_based",
             lp_balance |-> lp_based,
             mp_balance |-> calculate_mp_balance_stg_based(
                                st.mp_process, st.mp_fixed, lp_based.mp_for_prds_lp,
                                extraction_data.y[2], stg_op_hours)]
       ELSE [mode |-> "legacy_fixed_ratio",
             lp_balance |-> lp_fixed_ratio,
             mp_balance |-> calculate_mp_balance(st.mp_process, st.mp_fixed,
                                                 lp_fixed_ratio.mp_for_prds_lp)]

\* STEPS 3a.1-3f: extraction, SHP capacity, steam balance, HRSG excess,
\* utility aux
USteam ==
    /\ u_pc = "steam"
    /\ LET plan == power_result.dispatchPlan
           extraction == ExtractionInForce(u_in.steam, cur.stg_gross_mwh, u_in.plant,
                                           u_in.stg_extraction_lookup)
           hrsg_availability == get_hrsg_availability_from_dispatch(plan)
           shp_capacity == calculate_shp_generation_capacity(hrsg_availability)
           steam_balance == calculate_steam_balance(u_in.steam, cur.stg_shp_required)
           shp_demand == steam_balance.total_shp_demand
           shp_deficit == shp_demand - shp_capacity.total_max_shp_capacity
           gt_count == Cardinality({i \in GtEntries(plan) : plan[i].GrossMWh > 0})
           utility_power_mwh ==
               UtilityPower(u_in.steam, shp_demand, gt_count, cur.stg_gross_mwh > 0,
                            Cardinality(shp_capacity.available_hrsgs))
           aux == cur.power_aux_mwh + utility_power_mwh
           aux_power_error == Abs(aux - previous_utility_aux_mwh)
       IN /\ current_utility_aux_mwh' = aux
          /\ cur' = [cur EXCEPT
                       !.shp_demand = shp_demand,
                       !.base_shp_demand =
                           u_in.steam.shp_process + u_in.steam.shp_fixed
                           + steam_balance.lp_balance.shp_for_stg_lp
                           + steam_balance.mp_balance.shp_for_stg_mp
                           + steam_balance.hp_balance.shp_for_hp_prds
                           + steam_balance.mp_balance.shp_for_prds_mp,
                       !.extraction_mode = extraction.mode,
                       !.shp_for_stg_extraction =
                           extraction.lp_balance.shp_for_stg_lp
                           + extraction.mp_balance.shp_for_stg_mp,
                       !.shp_for_prds =
                           extraction.mp_balance.shp_for_prds_mp
                           + steam_balance.hp_balance.shp_for_hp_prds,
                       !.min_shp_capacity = shp_capacity.total_min_shp_capacity,
                       !.max_shp_capacity = shp_capacity.total_max_shp_capacity,
                       !.shp_deficit = shp_deficit,
                       !.can_meet_shp = shp_deficit <= 0,
                       !.excess_steam_mt = ExcessSteam(shp_capacity, shp_demand),
                       !.aux_power_error = aux_power_error,
                       !.power_converged = aux_power_error <= USD_TOLERANCE,
                       !.shp_converged = shp_deficit <= 0]
    /\ u_pc' = "balance"
    /\ UNCHANGED dvars
    /\ UNCHANGED <<u_in, iteration, iteration_history, converged,
                   previous_utility_aux_mwh, stg_reduction_mwh,
                   import_compensation_mwh, stg_original_max_mwh, stg_steam_limit_mwh,
                   stg_min_override_mwh, gt_reduction_for_balance_mwh,
                   power_initially_converged, power_result, prev, final, u_result>>

\* ActualStgIncrease without the limit of what the GTs can give up
ActualStgIncrease_NoGtLimit(c) ==
    Min2(MulDiv(c.excess_steam_mt, 100, STG_SHP_PER_MWH),
         c.stg_db_max_mwh - c.stg_gross_mwh)

\* the STG increase the controller would command
ActualStgIncrease(c) ==
    Min2(Min2(MulDiv(c.excess_steam_mt, 100, STG_SHP_PER_MWH),
              c.stg_db_max_mwh - c.stg_gross_mwh),
         c.gt_available_reduction)

\* STEP 3g.1: excess steam balancing
UExcessBalance ==
    /\ u_pc = "balance"
    /\ LET initially == power_initially_converged
                        \/ cur.aux_power_error < NEAR_CONVERGED_MWH * Scale
           actual_stg_increase == ActualStgIncrease(cur)
       IN /\ power_initially_converged' = initially
          /\ IF cur.excess_steam_mt > 0 /\ initially
             THEN IF actual_stg_increase > MIN_STG_INCREASE_MWH * Scale
                  THEN /\ stg_min_override_mwh' =
                             Min2(cur.stg_gross_mwh + actual_stg_increase,
                                  cur.stg_db_max_mwh)
                       /\ gt_reduction_for_balance_mwh' = actual_stg_increase
                       /\ cur' = [cur EXCEPT !.stg_increased = TRUE,
                                             !.balanced = TRUE,
                                             !.actual_stg_increase = actual_stg_increase,
                                             !.action = "EXCESS_STEAM_BALANCE",
                                             !.status = "EXCESS_STEAM_BALANCING"]
                  ELSE /\ cur' = IF cur.excess_steam_mt > UNABSORBED_EXCESS_MT * Scale
                                 THEN [cur EXCEPT
                                         !.actual_stg_increase = actual_stg_increase,
                                         !.action = "EXCESS_STEAM_UNABSORBED",
                                         !.status = "EXCESS_STEAM_LIMIT_REACHED"]
                                 ELSE [cur EXCEPT
                                         !.actual_stg_increase = actual_stg_increase]
                       /\ UNCHANGED <<stg_min_override_mwh, gt_reduction_for_balance_mwh>>
             ELSE UNCHANGED <<cur, stg_min_override_mwh, gt_reduction_for_balance_mwh>>
    /\ u_pc' = "recover"
    /\ UNCHANGED dvars
    /\ UNCHANGED <<u_in, iteration, iteration_history, converged,
                   previous_utility_aux_mwh, current_utility_aux_mwh,
                   stg_reduction_mwh, import_compensation_mwh, stg_original_max_mwh,
                   stg_steam_limit_mwh, power_result, prev, final, u_result>>

\* ActualRecovery without the 50% damping
ActualRecovery_Undamped(c, reduction) ==
    Min2(RoundMulDiv(Abs(c.shp_deficit), 100, STG_SHP_PER_MWH), reduction)

\* min(50% of the power the spare SHP could drive, the reduction so far)
ActualRecovery(c, reduction) ==
    Min2(RoundMulDiv(Abs(c.shp_deficit), 100, 2 * STG_SHP_PER_MWH), reduction)

\* URecover leaving the import compensation as it was
URecover_KeepsImport ==
    /\ u_pc = "recover"
    /\ IF cur.can_meet_shp /\ cur.shp_deficit < 0 /\ stg_reduction_mwh > 0
          /\ ActualRecovery(cur, stg_reduction_mwh) > RECOVERY_THRESHOLD
       THEN /\ stg_reduction_mwh' =
                  stg_reduction_mwh - ActualRecovery(cur, stg_reduction_mwh)
            /\ import_compensation_mwh' = import_compensation_mwh
            /\ cur' = [cur EXCEPT !.stg_increased = TRUE,
                                  !.recovered = TRUE,
                                  !.actual_recovery =
                                      ActualRecovery(cur, stg_reduction_mwh),
                                  !.action = "INCREASE_STG",
                                  !.status = "SHP_EXCESS_RECOVERY"]
       ELSE UNCHANGED <<stg_reduction_mwh, import_compensation_mwh, cur>>
    /\ u_pc' = "converge"
    /\ UNCHANGED dvars
    /\ UNCHANGED <<u_in, iteration, iteration_history, converged,
                   previous_utility_aux_mwh, current_utility_aux_mwh,
                   stg_original_max_mwh, stg_steam_limit_mwh, stg_min_override_mwh,
                   gt_reduction_for_balance_mwh, power_initially_converged,
                   power_result, prev, final, u_result>>

\* URecover placed after the convergence check
URecover_AfterConverge ==
    /\ u_pc = "recover"
    /\ IF cur.can_meet_shp /\ cur.shp_deficit < 0 /\ stg_reduction_mwh > 0
          /\ ActualRecovery(cur, stg_reduction_mwh) > RECOVERY_THRESHOLD
       THEN /\ stg_reduction_mwh' =
                  stg_reduction_mwh - ActualRecovery(cur, stg_reduction_mwh)
            /\ import_compensation_mwh' = stg_reduction_mwh'
            /\ cur' = [cur EXCEPT !.stg_increased = TRUE,
                                  !.recovered = TRUE,
                                  !.actual_recovery =
                                      ActualRecovery(cur, stg_reduction_mwh),
                                  !.action = "INCREASE_STG",
                                  !.status = "SHP_EXCESS_RECOVERY"]
       ELSE UNCHANGED <<stg_reduction_mwh, import_compensation_mwh, cur>>
    /\ u_pc' = "reduce"
    /\ UNCHANGED dvars
    /\ UNCHANGED <<u_in, iteration, iteration_history, converged,
                   previous_utility_aux_mwh, current_utility_aux_mwh,
                   stg_original_max_mwh, stg_steam_limit_mwh, stg_min_override_mwh,
                   gt_reduction_for_balance_mwh, power_initially_converged,
                   power_result, prev, final, u_result>>

\* STEP 3g.2: recover STG generation that was reduced before
URecover ==
    /\ u_pc = "recover"
    /\ IF cur.can_meet_shp /\ cur.shp_deficit < 0 /\ stg_reduction_mwh > 0
          /\ ActualRecovery(cur, stg_reduction_mwh) > RECOVERY_THRESHOLD
       THEN /\ stg_reduction_mwh' =
                  stg_reduction_mwh - ActualRecovery(cur, stg_reduction_mwh)
            /\ import_compensation_mwh' = stg_reduction_mwh'
            /\ cur' = [cur EXCEPT !.stg_increased = TRUE,
                                  !.recovered = TRUE,
                                  !.actual_recovery =
                                      ActualRecovery(cur, stg_reduction_mwh),
                                  !.action = "INCREASE_STG",
                                  !.status = "SHP_EXCESS_RECOVERY"]
       ELSE UNCHANGED <<stg_reduction_mwh, import_compensation_mwh, cur>>
    /\ u_pc' = "converge"
    /\ UNCHANGED dvars
    /\ UNCHANGED <<u_in, iteration, iteration_history, converged,
                   previous_utility_aux_mwh, current_utility_aux_mwh,
                   stg_original_max_mwh, stg_steam_limit_mwh, stg_min_override_mwh,
                   gt_reduction_for_balance_mwh, power_initially_converged,
                   power_result, prev, final, u_result>>

\* final_dispatch, final_steam_balance, ... of the current iteration
FinalOfIteration ==
    [iteration |-> iteration, dispatch |-> power_result.dispatchPlan,
     shp_demand |-> cur.shp_demand, max_shp_capacity |-> cur.max_shp_capacity,
     utility_aux_mwh |-> current_utility_aux_mwh]

\* UConverge without "power_converged and"
UConverge_IgnoringAux ==
    /\ u_pc = "converge"
    /\ IF cur.shp_converged /\ ~cur.stg_increased
       THEN /\ cur' = [cur EXCEPT !.action = "CONVERGED", !.status = "CONVERGED"]
            /\ iteration_history' = iteration_history + 1
            /\ converged' = TRUE
            /\ final' = FinalOfIteration
            /\ u_pc' = "return"
       ELSE /\ u_pc' = "reduce"
            /\ UNCHANGED <<cur, iteration_history, converged, final>>
    /\ UNCHANGED dvars
    /\ UNCHANGED <<u_in, iteration, previous_utility_aux_mwh, current_utility_aux_mwh,
                   stg_reduction_mwh, import_compensation_mwh, stg_original_max_mwh,
                   stg_steam_limit_mwh, stg_min_override_mwh,
                   gt_reduction_for_balance_mwh, power_initially_converged,
                   power_result, prev, u_result>>

\* "Now check for final convergence"
UConverge ==
    /\ u_pc = "converge"
    /\ IF cur.power_converged /\ cur.shp_converged /\ ~cur.stg_increased
       THEN /\ cur' = [cur EXCEPT !.action = "CONVERGED", !.status = "CONVERGED"]
            /\ iteration_history' = iteration_history + 1
            /\ converged' = TRUE
            /\ final' = FinalOfIteration
            /\ u_pc' = "return"
       ELSE /\ u_pc' = "reduce"
            /\ UNCHANGED <<cur, iteration_history, converged, final>>
    /\ UNCHANGED dvars
    /\ UNCHANGED <<u_in, iteration, previous_utility_aux_mwh, current_utility_aux_mwh,
                   stg_reduction_mwh, import_compensation_mwh, stg_original_max_mwh,
                   stg_steam_limit_mwh, stg_min_override_mwh,
                   gt_reduction_for_balance_mwh, power_initially_converged,
                   power_result, prev, u_result>>

\* UReduce without "cap at original max"
UReduce_Uncapped ==
    /\ u_pc = "reduce"
    /\ LET stg_reduction_for_shp == RoundMulDiv(cur.shp_deficit, 100, STG_SHP_PER_MWH)
           added == stg_reduction_mwh + stg_reduction_for_shp
       IN IF ~cur.can_meet_shp /\ cur.shp_deficit > 0
          THEN IF cur.stg_gross_mwh <= 0
               THEN /\ cur' = [cur EXCEPT !.action = "SHP_IMPOSSIBLE",
                                          !.status = "FAILED"]
                    /\ iteration_history' = iteration_history + 1
                    /\ final' = FinalOfIteration
                    /\ u_pc' = "return"
                    /\ UNCHANGED <<stg_reduction_mwh, import_compensation_mwh>>
               ELSE /\ stg_reduction_mwh' = added
                    /\ import_compensation_mwh' = stg_reduction_mwh'
                    /\ cur' = [cur EXCEPT !.reduced = TRUE,
                                          !.stg_reduction_for_shp = stg_reduction_for_shp,
                                          !.action = "REDUCE_STG",
                                          !.status = "SHP_DEFICIT"]
                    /\ u_pc' = "next"
                    /\ UNCHANGED <<iteration_history, final>>
          ELSE /\ cur' = IF ~cur.power_converged
                         THEN [cur EXCEPT !.action = "AUX_ERROR",
                                          !.status = "POWER_ITERATING"]
                         ELSE cur
               /\ u_pc' = "next"
               /\ UNCHANGED <<stg_reduction_mwh, import_compensation_mwh,
                              iteration_history, final>>
    /\ UNCHANGED dvars
    /\ UNCHANGED <<u_in, iteration, converged, previous_utility_aux_mwh,
                   current_utility_aux_mwh, stg_original_max_mwh, stg_steam_limit_mwh,
                   stg_min_override_mwh, gt_reduction_for_balance_mwh,
                   power_initially_converged, power_result, prev, u_result>>

\* STEP 3h: the SHP cannot be met
UReduce ==
    /\ u_pc = "reduce"
    /\ LET stg_reduction_for_shp == RoundMulDiv(cur.shp_deficit, 100, STG_SHP_PER_MWH)
           added == stg_reduction_mwh + stg_reduction_for_shp
       IN IF ~cur.can_meet_shp /\ cur.shp_deficit > 0
          THEN IF cur.stg_gross_mwh <= 0
               THEN /\ cur' = [cur EXCEPT !.action = "SHP_IMPOSSIBLE",
                                          !.status = "FAILED"]
                    /\ iteration_history' = iteration_history + 1
                    /\ final' = FinalOfIteration
                    /\ u_pc' = "return"
                    /\ UNCHANGED <<stg_reduction_mwh, import_compensation_mwh>>
               ELSE /\ stg_reduction_mwh' =
                          IF stg_original_max_mwh # None
                          THEN Min2(added, stg_original_max_mwh) ELSE added
                    /\ import_compensation_mwh' = stg_reduction_mwh'
                    /\ cur' = [cur EXCEPT !.reduced = TRUE,
                                          !.stg_reduction_for_shp = stg_reduction_for_shp,
                                          !.action = "REDUCE_STG",
                                          !.status = "SHP_DEFICIT"]
                    /\ u_pc' = "next"
                    /\ UNCHANGED <<iteration_history, final>>
          ELSE /\ cur' = IF ~cur.power_converged
                         THEN [cur EXCEPT !.action = "AUX_ERROR",
                                          !.status = "POWER_ITERATING"]
                         ELSE cur
               /\ u_pc' = "next"
               /\ UNCHANGED <<stg_reduction_mwh, import_compensation_mwh,
                              iteration_history, final>>
    /\ UNCHANGED dvars
    /\ UNCHANGED <<u_in, iteration, converged, previous_utility_aux_mwh,
                   current_utility_aux_mwh, stg_original_max_mwh, stg_steam_limit_mwh,
                   stg_min_override_mwh, gt_reduction_for_balance_mwh,
                   power_initially_converged, power_result, prev, u_result>>

\* "Calculate STG limit based on steam availability for NEXT iteration"
SteamLimit(c) ==
    IF c.max_shp_capacity - c.base_shp_demand > 0
    THEN MulDiv(c.max_shp_capacity - c.base_shp_demand, 100, STG_SHP_PER_MWH)
    ELSE 0

\* UEndIteration with a loop that runs once more than the limit
UEndIteration_OneMore ==
    /\ u_pc = "next"
    /\ iteration_history' = iteration_history + 1
    /\ final' = FinalOfIteration
    /\ stg_steam_limit_mwh' = SteamLimit(cur)
    /\ previous_utility_aux_mwh' = current_utility_aux_mwh
    /\ prev' = cur
    /\ IF iteration <= USD_ITERATION_LIMIT
       THEN /\ iteration' = iteration + 1
            /\ u_pc' = "dispatch"
       ELSE /\ iteration' = iteration
            /\ u_pc' = "return"
    /\ UNCHANGED dvars
    /\ UNCHANGED <<u_in, converged, current_utility_aux_mwh, stg_reduction_mwh,
                   import_compensation_mwh, stg_original_max_mwh,
                   stg_min_override_mwh, gt_reduction_for_balance_mwh,
                   power_initially_converged, power_result, cur, u_result>>

\* the end of the loop body, and the loop header
UEndIteration ==
    /\ u_pc = "next"
    /\ iteration_history' = iteration_history + 1
    /\ final' = FinalOfIteration
    /\ stg_steam_limit_mwh' = SteamLimit(cur)
    /\ previous_utility_aux_mwh' = current_utility_aux_mwh
    /\ prev' = cur
    /\ IF iteration < USD_ITERATION_LIMIT
       THEN /\ iteration' = iteration + 1
            /\ u_pc' = "dispatch"
       ELSE /\ iteration' = iteration
            /\ u_pc' = "return"
    /\ UNCHANGED dvars
    /\ UNCHANGED <<u_in, converged, current_utility_aux_mwh, stg_reduction_mwh,
                   import_compensation_mwh, stg_original_max_mwh,
                   stg_min_override_mwh, gt_reduction_for_balance_mwh,
                   power_initially_converged, power_result, cur, u_result>>

\* STEP 4: the returned dict
UReturn ==
    /\ u_pc = "return"
    /\ u_result' =
          [success |-> converged,
           error_type |-> IF converged THEN "None" ELSE "USD_NOT_CONVERGED",
           converged |-> converged,
           iterations_used |-> iteration_history,
           final_iteration |-> final.iteration,
           final_dispatch |-> final.dispatch,
           final_shp_demand |-> final.shp_demand,
           final_power_aux_mwh |-> current_utility_aux_mwh,
           stg_reduction_mwh |-> stg_reduction_mwh,
           import_compensation_mwh |-> import_compensation_mwh]
    /\ u_pc' = "done"
    /\ UNCHANGED dvars
    /\ UNCHANGED <<u_in, iteration, iteration_history, converged,
                   previous_utility_aux_mwh, current_utility_aux_mwh,
                   stg_reduction_mwh, import_compensation_mwh, stg_original_max_mwh,
                   stg_steam_limit_mwh, stg_min_override_mwh,
                   gt_reduction_for_balance_mwh, power_initially_converged,
                   power_result, cur, prev, final>>

UNext ==
    \/ USetup \/ UDispatch \/ UExtract \/ USteam \/ UExcessBalance \/ URecover
    \/ UConverge \/ UReduce \/ UEndIteration \/ UReturn

----------------------------------------------------------------------------
(* One call of dispatch_hrsg_load on the capacity computed from a power    *)
(* dispatch, as usd_iterate STEPS 3b and 3d make it                        *)

\* the hours a GT can have run in the period
HrsgHours == {360, 720}

\* entry of GT n in a power dispatch
GtEntry(n, prio, hours, gross, free_steam) ==
    [kind |-> "GT", num |-> n, Priority |-> prio, Hours |-> hours, GrossMWh |-> gross,
     FreeSteam |-> free_steam]

\* the FreeSteam factors of a power dispatch: none, 0.5 or 2 MT per MWh
FreeSteamFactors == {None, Scale \div 2, 2 * Scale}

\* power dispatches of three GTs on two priorities, each running or not
HrsgPlans ==
    { <<GtEntry(1, x[1], y[1], z[1], w), GtEntry(2, x[2], y[2], z[2], w),
        GtEntry(3, x[3], y[3], z[3], w)>> :
        x \in [1..3 -> {1, 2}], y \in [1..3 -> HrsgHours],
        z \in [1..3 -> {0, MWh(3600)}], w \in FreeSteamFactors }

ShpStep == MWh(30000)

ShpLevels == 11

HrsgInputs ==
    [power_dispatch : HrsgPlans, shp_demand : {k * ShpStep : k \in 0..ShpLevels}]

HInit ==
    /\ h_pc = "capacity"
    /\ h_in \in HrsgInputs
    /\ h_capacity = NoPre
    /\ h_result = NoPre

\* no call of dispatch_hrsg_load
HIdle ==
    /\ h_pc = "idle"
    /\ h_in = NoPre
    /\ h_capacity = NoPre
    /\ h_result = NoPre

\* STEP 3b: availability of the HRSGs and their firing bounds
HCapacity ==
    /\ h_pc = "capacity"
    /\ h_capacity' = calculate_shp_generation_capacity(
                         get_hrsg_availability_from_dispatch(h_in.power_dispatch))
    /\ h_pc' = "dispatch"
    /\ UNCHANGED <<h_in, h_result>>

\* STEP 3d: the firing dispatch
HDispatch ==
    /\ h_pc = "dispatch"
    /\ h_result' = dispatch_hrsg_load(h_in.power_dispatch, h_in.shp_demand, h_capacity)
    /\ h_pc' = "done"
    /\ UNCHANGED <<h_in, h_capacity>>

HNext == HCapacity \/ HDispatch

----------------------------------------------------------------------------
(* One query of a lookup curve *)

\* the x of the breakpoints a curve may have
Breakpoints == {5 * Scale, 15 * Scale, 25 * Scale}

\* the curves over a set of breakpoints, rows in ascending x
CurvesOver(xs) ==
    LET order == SortedSet(xs)
    IN { [i \in DOMAIN order |-> [x |-> order[i], y |-> <<f[i], g[i]>>]] :
           f \in [DOMAIN order -> {0, 10 * Scale, 40 * Scale}],
           g \in [DOMAIN order -> {10 * Scale, 40 * Scale}] }

\* every curve, the curve without points included
Curves == UNION {CurvesOver(xs) : xs \in SUBSET Breakpoints}

\* the queried x: below, on and between the breakpoints, and not positive
Queries ==
    {0 - 5 * Scale, 0, 2 * Scale, 5 * Scale, 10 * Scale, 12 * Scale, 15 * Scale,
     20 * Scale, 25 * Scale, 30 * Scale}

KInit ==
    /\ k_pc = "query"
    /\ k_in \in [curve : Curves, x : Queries]
    /\ k_fn = "none"
    /\ k_result = NoPre
    /\ k_balance = NoPre

\* no lookup
KIdle ==
    /\ k_pc = "idle"
    /\ k_in = NoPre
    /\ k_fn = "none"
    /\ k_result = NoPre
    /\ k_balance = NoPre

KStgExtraction ==
    /\ k_pc = "query"
    /\ k_fn' = "get_stg_extraction_for_load"
    /\ k_result' = get_stg_extraction_for_load(k_in.x, k_in.curve)
    /\ k_pc' = "done"
    /\ UNCHANGED <<k_in, k_balance>>

KHeatRate ==
    /\ k_pc = "query"
    /\ k_fn' = "get_heat_rate_for_load"
    /\ k_result' = get_heat_rate_for_load(k_in.curve, k_in.x)
    /\ k_pc' = "done"
    /\ UNCHANGED <<k_in, k_balance>>

KHrsgHeatRate ==
    /\ k_pc = "query"
    /\ k_fn' = "get_hrsg_heat_rate_for_load"
    /\ k_result' = get_hrsg_heat_rate_for_load(k_in.x, k_in.curve)
    /\ k_pc' = "done"
    /\ UNCHANGED <<k_in, k_balance>>

\* the steam demands and STG hours of a balance
BalanceDemands ==
    [lp_process : {0, MWh(10000), MWh(40000)}, bfw_ufu : {0, MWh(300)},
     mp_process : {0, MWh(5000), MWh(30000)}, stg_op_hours : {360, 720}]

\* usd_iterate STEP 3a.1 in load-based mode: the LP and MP balance from the
\* extraction rates looked up for the STG load
KBalance ==
    /\ k_pc = "done"
    /\ k_fn = "get_stg_extraction_for_load"
    /\ k_in.curve # <<>> /\ k_in.x > 0
    /\ \E d \in BalanceDemands :
          LET lp_balance == calculate_lp_balance_stg_based(
                                d.lp_process, 0, d.bfw_ufu, k_result.y[1], d.stg_op_hours)
          IN k_balance' =
                [demand |-> d,
                 lp_balance |-> lp_balance,
                 mp_balance |-> calculate_mp_balance_stg_based(
                                    d.mp_process, 0, lp_balance.mp_for_prds_lp,
                                    k_result.y[2], d.stg_op_hours)]
    /\ k_pc' = "balanced"
    /\ UNCHANGED <<k_in, k_fn, k_result>>

KNext == KStgExtraction \/ KHeatRate \/ KHrsgHeatRate \/ KBalance

----------------------------------------------------------------------------
(* Two runs that read the HRSG configuration through get_hrsg_assets, as   *)
(* get_hrsg_availability_from_dispatch and dispatch_hrsg_load do, with     *)
(* their steps interleaved                                                 *)

Runs == {1, 2}

\* calls of get_hrsg_assets a run makes
CallsPerRun == 2

\* the module-level dictionary at import
HRSG_ASSETS_DEFAULT ==
    [h \in HRSG_ASSETS |->
        [min_capacity_mt |-> HRSG_MIN_CAPACITY, max_capacity_mt |-> HRSG_MAX_CAPACITY,
         efficiency |-> HRSG_EFFICIENCY]]

\* a row of SteamGenerationAssets; 0 stands for NULL
AssetRow(n, min, max, eff) ==
    [AssetName |-> n, MinCapacityMT |-> min, MaxCapacityMT |-> max, Efficiency |-> eff]

\* the contents of SteamGenerationAssets
AssetTables ==
    { <<>>,
      << AssetRow(1, 60, 136, 103), AssetRow(2, 60, 136, 103), AssetRow(3, 60, 136, 103) >>,
      << AssetRow(1, 60, 150, 103), AssetRow(2, 60, 150, 103), AssetRow(3, 60, 150, 103) >>,
      << AssetRow(2, 70, 0, 0), AssetRow(3, 70, 140, 100) >> }

\* "Build HRSG_ASSETS from DB": a NULL column takes the default value
BuildHrsgAssets(rows) ==
    [h \in {rows[i].AssetName : i \in DOMAIN rows} |->
        LET row == rows[CHOOSE i \in DOMAIN rows : rows[i].AssetName = h]
        IN [min_capacity_mt |-> IF row.MinCapacityMT # 0 THEN row.MinCapacityMT
                                ELSE HRSG_MIN_CAPACITY,
            max_capacity_mt |-> IF row.MaxCapacityMT # 0 THEN row.MaxCapacityMT
                                ELSE HRSG_MAX_CAPACITY,
            efficiency |-> IF row.Efficiency # 0 THEN row.Efficiency
                           ELSE HRSG_EFFICIENCY]]

\* what load_hrsg_assets_from_db binds HRSG_ASSETS to; the query of a run
\* either answers or raises
load_hrsg_assets_from_db(current, rows, query_ok) ==
    IF query_ok /\ rows # <<>> THEN BuildHrsgAssets(rows) ELSE current

RInit ==
    /\ r_in \in [rows : AssetTables, query_ok : [Runs -> BOOLEAN]]
    /\ r_pc = [r \in Runs |-> "test"]
    /\ r_calls = [r \in Runs |-> CallsPerRun]
    /\ hrsg_assets = HRSG_ASSETS_DEFAULT
    /\ hrsg_writer = 0
    /\ r_seen = [r \in Runs |-> {}]
    /\ r_got = [r \in Runs |-> <<>>]

\* no run
RIdle ==
    /\ r_in = NoPre
    /\ r_pc = [r \in Runs |-> "idle"]
    /\ r_calls = [r \in Runs |-> 0]
    /\ hrsg_assets = HRSG_ASSETS_DEFAULT
    /\ hrsg_writer = 0
    /\ r_seen = [r \in Runs |-> {}]
    /\ r_got = [r \in Runs |-> <<>>]

\* get_hrsg_assets: "if HRSG_ASSETS == HRSG_ASSETS_DEFAULT"
RTest(r) ==
    /\ r_pc[r] = "test"
    /\ r_seen' = [r_seen EXCEPT ![r] = @ \cup {hrsg_writer}]
    /\ r_pc' = [r_pc EXCEPT ![r] = IF hrsg_assets = HRSG_ASSETS_DEFAULT THEN "load"
                                   ELSE "return"]
    /\ UNCHANGED <<r_in, r_calls, hrsg_assets, hrsg_writer, r_got>>

\* get_hrsg_assets: "load_hrsg_assets_from_db()"
RLoad(r) ==
    /\ r_pc[r] = "load"
    /\ hrsg_assets' = load_hrsg_assets_from_db(hrsg_assets, r_in.rows, r_in.query_ok[r])
    /\ hrsg_writer' = IF r_in.query_ok[r] /\ r_in.rows # <<>> THEN r ELSE hrsg_writer
    /\ r_pc' = [r_pc EXCEPT ![r] = "return"]
    /\ UNCHANGED <<r_in, r_calls, r_seen, r_got>>

\* get_hrsg_assets: "return HRSG_ASSETS"
RReturn(r) ==
    /\ r_pc[r] = "return"
    /\ r_got' = [r_got EXCEPT ![r] = hrsg_assets]
    /\ r_seen' = [r_seen EXCEPT ![r] = @ \cup {hrsg_writer}]
    /\ r_calls' = [r_calls EXCEPT ![r] = @ - 1]
    /\ r_pc' = [r_pc EXCEPT ![r] = IF r_calls[r] > 1 THEN "test" ELSE "done"]
    /\ UNCHANGED <<r_in, hrsg_assets, hrsg_writer>>

RNext == \E r \in Runs : RTest(r) \/ RLoad(r) \/ RReturn(r)

----------------------------------------------------------------------------

(* Specifications *)

Init == UInit /\ DIdle /\ HIdle /\ KIdle /\ RIdle

Next == UNext /\ UNCHANGED <<hvars, kvars, rvars>>

Spec == Init /\ [][Next]_vars

InitDispatch == DInit /\ UIdle /\ HIdle /\ KIdle /\ RIdle

NextDispatch == DNext /\ UNCHANGED <<uvars, hvars, kvars, rvars>>

SpecDispatch == InitDispatch /\ [][NextDispatch]_vars

InitHrsg == HInit /\ DIdle /\ UIdle /\ KIdle /\ RIdle

NextHrsg == HNext /\ UNCHANGED <<dvars, uvars, kvars, rvars>>

SpecHrsg == InitHrsg /\ [][NextHrsg]_vars

InitLookup == KInit /\ DIdle /\ UIdle /\ HIdle /\ RIdle

NextLookup == KNext /\ UNCHANGED <<dvars, uvars, hvars, rvars>>

SpecLookup == InitLookup /\ [][NextLookup]_vars

InitRuns == RInit /\ DIdle /\ UIdle /\ HIdle /\ KIdle

NextRuns == RNext /\ UNCHANGED <<dvars, uvars, hvars, kvars>>

SpecRuns == InitRuns /\ [][NextRuns]_vars

----------------------------------------------------------------------------
(* Properties of the priority dispatch *)

PlanGross == [i \in DOMAIN d_result.dispatchPlan |-> d_result.dispatchPlan[i].GrossMWh]

HasPlan == d_pc = "done" /\ d_result.hasPlan /\ d_result.dispatchPlan # <<>>

\* a pass of _dispatch_once has just placed its last group
PassDone == d_pc = "group" /\ (d_prios = <<>> \/ remaining <= 0)

SumMax == SumSeq([i \in DOMAIN avail |-> avail[i].maxEnergy])

\* C1: whenever the target of a pass is at most the sum of the units' maxima,
\* the pass gives every unit a quantity between its minimum and its maximum,
\* and the quantities sum to at least min(target, sum of maxima) within the
\* tolerance.
C1_DispatchWithinLimits ==
    (PassDone /\ gross_target <= SumMax) =>
        /\ \A i \in DOMAIN avail :
              /\ avail[i].minEnergy <= asset_dispatch[i]
              /\ asset_dispatch[i] <= avail[i].maxEnergy
        /\ SumSeq(asset_dispatch) >= Min2(gross_target, SumMax) - TOLERANCE

\* the two halves of C1 that the code does keep
C1_AtLeastMinAndCovers ==
    (PassDone /\ gross_target <= SumMax) =>
        /\ \A i \in DOMAIN avail : avail[i].minEnergy <= asset_dispatch[i]
        /\ SumSeq(asset_dispatch) >= Min2(gross_target, SumMax) - TOLERANCE

\* C8 as stated: a unit of a lower-priority group is above its minimum only
\* if every unit of every higher-priority group is at its maximum.
C8_StrictPriority ==
    HasPlan =>
        \A i, j \in DOMAIN avail :
           (avail[j].Priority < avail[i].Priority
            /\ PlanGross[i] > avail[i].minEnergy)
              => PlanGross[j] >= avail[j].maxEnergy

\* C8, amended: a unit of a lower-priority group is above its minimum by more
\* than the 0.1 MWh share threshold only if every unit of every
\* higher-priority group is within that threshold of its maximum.
C8_PriorityUpToThreshold ==
    HasPlan =>
        \A i, j \in DOMAIN avail :
           (avail[j].Priority < avail[i].Priority
            /\ PlanGross[i] > avail[i].minEnergy + SHARE_THRESHOLD)
              => PlanGross[j] >= avail[j].maxEnergy - SHARE_THRESHOLD

\* a lower-priority unit carries load above its minimum behind a full tier of two
C8_Witness ==
    /\ HasPlan
    /\ \E i, j, k \in DOMAIN avail :
          /\ j # k
          /\ avail[j].Priority = avail[k].Priority
          /\ avail[j].Priority < avail[i].Priority
          /\ avail[j].minEnergy < avail[j].maxEnergy
          /\ PlanGross[i] > avail[i].minEnergy + SHARE_THRESHOLD
          /\ PlanGross[j] = avail[j].maxEnergy
          /\ PlanGross[k] = avail[k].maxEnergy

IsScenarioA ==
    /\ d_in.fym_found
    /\ d_in.plant = PlantScenarioA
    /\ d_in.base_demand = ScenarioADemand
    /\ d_in.additional_demand_mwh = 0
    /\ d_in.import_mw = 0
    /\ d_in.gt_reduction_mwh = 0

\* C9 as stated: in Scenario A Unit 1 ends at its 15,840 MWh maximum and the
\* three units, one per priority, end with three different allocations.
C9_ScenarioA_Stated ==
    (IsScenarioA /\ HasPlan) =>
        /\ PlanGross[1] = avail[1].maxEnergy
        /\ PlanGross[1] # PlanGross[2]
        /\ PlanGross[2] # PlanGross[3]
        /\ PlanGross[1] # PlanGross[3]

\* C9, amended: in Scenario A all three units are first set to 3,600 MWh;
\* then Unit 1 alone is raised, by the 9,200 MWh that are left, to 12,800 MWh,
\* below its 15,840 MWh maximum; Units 2 and 3 stay at 3,600 MWh.
C9_ScenarioA ==
    IsScenarioA =>
        /\ (d_pc = "group" /\ d_last = NoGroup)
              => asset_dispatch = <<MWh(3600), MWh(3600), MWh(3600)>>
        /\ (d_pc = "group" /\ d_last # NoGroup)
              => /\ d_last.prio = 1
                 /\ d_last.rem_before = MWh(9200)
                 /\ asset_dispatch = <<MWh(12800), MWh(3600), MWh(3600)>>
        /\ HasPlan => PlanGross = <<MWh(12800), MWh(3600), MWh(3600)>>
        /\ d_pc = "done" => d_result.kind = "plan"

C9_Witness ==
    /\ IsScenarioA
    /\ HasPlan
    /\ PlanGross[1] = MWh(12800)
    /\ PlanGross[1] < avail[1].maxEnergy

\* the increment a member of the last processed group received
Increment(i) == d_last.after[i] - d_last.before[i]

AuxStable ==
    Abs(current_utility_aux_mwh - previous_utility_aux_mwh) <= USD_TOLERANCE

ShpMet == cur.shp_demand <= cur.max_shp_capacity

NoStgCorrection == ~cur.balanced /\ ~cur.recovered /\ ~cur.reduced

\* C2: converged is reported only in an iteration whose utility aux moved by
\* at most the tolerance, whose SHP demand is within the SHP capacity and in
\* which no STG correction was made; and an iteration in which all three hold
\* never goes past the convergence check (it ends the run converged).
C2_ConvergedIffStable ==
    /\ converged =>
          /\ u_pc \in {"return", "done"}
          /\ AuxStable /\ ShpMet /\ NoStgCorrection
          /\ cur.iteration = iteration /\ final.iteration = iteration
          /\ cur.action = "CONVERGED"
    /\ u_pc = "reduce" => ~(AuxStable /\ ShpMet /\ NoStgCorrection)
    /\ (u_pc = "done" /\ u_result.converged) => converged

C2_Witness ==
    /\ u_pc = "done" /\ u_result.converged /\ converged
    /\ iteration > 2 /\ stg_min_override_mwh # None

\* the run ended on an error that no further iteration can mend
FatallyInfeasible ==
    \/ u_result.error_type \in {"POWER_INSUFFICIENT", "POWER_ERROR"}
    \/ cur.action = "SHP_IMPOSSIBLE"

\* the run ended because the loop ran out of iterations
NotConverged == ~u_result.converged /\ ~FatallyInfeasible

\* what a run that ended carries
C3_Outcome ==
    /\ iteration <= USD_ITERATION_LIMIT
    /\ iteration_history <= USD_ITERATION_LIMIT
    /\ u_pc = "done" =>
          /\ u_result.iterations_used <= USD_ITERATION_LIMIT
          /\ ~(u_result.converged /\ FatallyInfeasible)
          /\ NotConverged =>
                /\ u_result.iterations_used = USD_ITERATION_LIMIT
                /\ cur.iteration = USD_ITERATION_LIMIT
                /\ ~converged /\ ~u_result.success
                /\ u_result.final_iteration = USD_ITERATION_LIMIT
                /\ u_result.final_dispatch = power_result.dispatchPlan
                /\ u_result.final_shp_demand = cur.shp_demand
                /\ u_result.final_power_aux_mwh = current_utility_aux_mwh

\* how far the run has come: the iteration, then the step within it
PcRank ==
    [p \in {"setup", "dispatch", "extract", "steam", "balance", "recover", "converge",
            "reduce", "next", "return", "done"} |->
        CASE p = "setup" -> 9 [] p = "dispatch" -> 0 [] p = "extract" -> 1 [] p = "steam" -> 2
          [] p = "balance" -> 3 [] p = "recover" -> 4 [] p = "converge" -> 5
          [] p = "reduce" -> 6 [] p = "next" -> 7 [] p = "return" -> 8
          [] p = "done" -> 9]

Position == iteration * 10 + PcRank[u_pc]

\* C3: every run that enters the loop ends, after at most 50 iterations, in
\* exactly one of converged, not converged, fatally infeasible; a run that
\* reaches the cap without converging returns converged = false and the
\* dispatch, steam balance and utility aux of the 50th iteration.  The run
\* ends because every step moves it to a later position and the positions
\* stop at the return of the 50th iteration.
C3_EndsWithinCap ==
    /\ [](C3_Outcome /\ u_pc \in DOMAIN PcRank)
    /\ [][Position' > Position]_vars

C3_Witness ==
    /\ u_pc = "done" /\ NotConverged
    /\ u_result.iterations_used = USD_ITERATION_LIMIT
    /\ u_result.final_iteration = USD_ITERATION_LIMIT

\* the iteration found the SHP short with the STG already at zero
ShpImpossible ==
    /\ cur.shp_demand > cur.max_shp_capacity /\ cur.stg_gross_mwh <= 0
    /\ u_pc \in {"next", "return", "done"} /\ cur.iteration = iteration

\* C4: an iteration that finds the SHP demand above the SHP capacity while the
\* STG generation is already zero fails the run in that iteration, and the
\* result has converged = false and error type "SHP_IMPOSSIBLE".
C4_ShpImpossibleReported ==
    ShpImpossible =>
        /\ u_pc \in {"return", "done"}
        /\ ~converged
        /\ u_pc = "done" =>
              ~u_result.converged /\ u_result.error_type = "SHP_IMPOSSIBLE"

\* what the run does keep of it: it stops in that iteration, not converged,
\* and only the iteration record says "SHP_IMPOSSIBLE"
C4_ShpImpossibleStops ==
    ShpImpossible =>
        /\ u_pc \in {"return", "done"}
        /\ ~converged /\ cur.action = "SHP_IMPOSSIBLE" /\ cur.status = "FAILED"
        /\ final.iteration = iteration
        /\ u_pc = "done" =>
              ~u_result.converged /\ u_result.error_type = "USD_NOT_CONVERGED"

\* CapacityMW x operating hours of the plant's STG (0 without an STG)
StgUnitMax ==
    SumIdx([i \in DOMAIN u_in.plant |->
              u_in.plant[i].capacity * u_in.plant[i].opHours * Scale],
           {i \in DOMAIN u_in.plant : IsSTG(u_in.plant[i])})

\* C5: in every state of a run the cumulative STG reduction is at most the
\* STG's original maximum (CapacityMW x operating hours), also when
\* reductions and recoveries follow one another; the result returns it so.
C5_ReductionWithinStgMax ==
    /\ 0 <= stg_reduction_mwh /\ stg_reduction_mwh <= StgUnitMax
    /\ u_pc = "done" => u_result.stg_reduction_mwh <= StgUnitMax

\* a reduction in the iteration after a recovery
C5_Witness ==
    /\ u_pc = "next" /\ cur.reduced /\ prev.recovered
    /\ stg_reduction_mwh > 0 /\ stg_reduction_mwh <= StgUnitMax

\* the smaller of the STG headroom, the GT reducible headroom and the power
\* the excess steam can drive
RebalanceAmount ==
    LET steam_to_power == MulDiv(cur.excess_steam_mt, 100, STG_SHP_PER_MWH)
        stg_headroom == cur.stg_db_max_mwh - cur.stg_gross_mwh
        gt_headroom == cur.gt_available_reduction
    IN IF steam_to_power <= stg_headroom /\ steam_to_power <= gt_headroom
       THEN steam_to_power
       ELSE IF stg_headroom <= gt_headroom THEN stg_headroom ELSE gt_headroom

NearConverged ==
    power_initially_converged \/ cur.aux_power_error < NEAR_CONVERGED_MWH * Scale

\* C6 as stated: with excess steam and power near-converged, the controller
\* raises the STG by the smaller of the three amounts and cuts the GTs by
\* that same amount, whatever the amount.
C6_RebalanceStated ==
    (u_pc = "recover" /\ cur.excess_steam_mt > 0 /\ power_initially_converged
       /\ RebalanceAmount > 0)
    => /\ cur.balanced
       /\ stg_min_override_mwh = cur.stg_gross_mwh + RebalanceAmount
       /\ gt_reduction_for_balance_mwh = RebalanceAmount

\* the balancing step of one iteration
C6_Step ==
    (u_pc = "balance" /\ cur.excess_steam_mt > 0 /\ NearConverged)
    => IF RebalanceAmount > MIN_STG_INCREASE_MWH * Scale
       THEN /\ cur'.balanced /\ cur'.actual_stg_increase = RebalanceAmount
            /\ stg_min_override_mwh' = cur.stg_gross_mwh + RebalanceAmount
            /\ gt_reduction_for_balance_mwh' = RebalanceAmount
       ELSE /\ ~cur'.balanced
            /\ UNCHANGED <<stg_min_override_mwh, gt_reduction_for_balance_mwh>>

GtUnits == {i \in DOMAIN u_in.plant : IsGT(u_in.plant[i])}

GtUnitsMax ==
    SumIdx([i \in DOMAIN u_in.plant |->
              u_in.plant[i].capacity * u_in.plant[i].opHours * Scale], GtUnits)

GtUnitsMin ==
    SumIdx([i \in DOMAIN u_in.plant |->
              u_in.plant[i].minMW * u_in.plant[i].opHours * Scale], GtUnits)

\* the dispatch that follows a rebalance
C6_NextDispatch ==
    (u_pc = "steam" /\ prev.balanced)
    => /\ cur.stg_gross_mwh >= prev.stg_gross_mwh + prev.actual_stg_increase
       /\ cur.stg_gross_mwh >= stg_min_override_mwh
       /\ cur.gt_gross_mwh <= Max2(GtUnitsMax - gt_reduction_for_balance_mwh,
                                   GtUnitsMin)

\* C6 (amended): with excess steam and power near-converged, the controller
\* acts only if the smaller of STG headroom, GT reducible headroom and the
\* steam-to-power equivalent of the excess is above 50 MWh; it then sets,
\* for the next dispatch, the STG minimum to the current STG generation plus
\* that amount and the GT capacity cut to that same amount, and the next
\* dispatch gives the STG at least that much more and keeps the GTs within
\* the cut capacity.  At 50 MWh or less nothing is changed.
C6_RebalanceAboveThreshold ==
    [](C6_NextDispatch) /\ [][C6_Step]_vars

C6_Witness ==
    /\ u_pc = "steam" /\ prev.balanced
    /\ prev.actual_stg_increase > MIN_STG_INCREASE_MWH * Scale
    /\ gt_reduction_for_balance_mwh = prev.actual_stg_increase
    /\ stg_min_override_mwh = prev.stg_gross_mwh + prev.actual_stg_increase
    /\ cur.stg_gross_mwh >= stg_min_override_mwh

\* the dispatch of the iteration after a rebalance, against the one before
AfterRebalance ==
    u_pc = "steam" /\ prev.balanced /\ cur.iteration = prev.iteration + 1

StgRise == cur.stg_gross_mwh - prev.stg_gross_mwh

GtFall == prev.gt_gross_mwh - cur.gt_gross_mwh

\* C7: Scenario C: after a rebalance the STG's dispatched generation has risen
\* and the GTs' dispatched generation has fallen by the identical amount, and
\* the total net power is the same as before (each within the 1 MWh
\* tolerance of the dispatch).
C7_RebalancePreservesNet ==
    AfterRebalance =>
        /\ StgRise > 0 /\ GtFall > 0
        /\ Abs(StgRise - GtFall) <= TOLERANCE
        /\ Abs(cur.total_net_mwh - prev.total_net_mwh) <= TOLERANCE

\* what the dispatch after a rebalance does keep: the STG rises by at least
\* the commanded amount and the GTs do not rise
C7_RebalanceShifts ==
    AfterRebalance =>
        StgRise >= prev.actual_stg_increase /\ GtFall >= 0

\* ---------------------------------------------------------------------------
\* Properties of _dispatch_once below the minimum load
\* ---------------------------------------------------------------------------

SumMin == SumSeq([i \in DOMAIN avail |-> avail[i].minEnergy])

\* C11: when the target of a pass is less than the total of the units'
\* minimums, the pass leaves every unit at exactly its minimum and the
\* shortfall it returns, max(0, target - total dispatched), is 0.
C11_BelowMinStaysAtMin ==
    (PassDone /\ gross_target < SumMin) =>
        /\ \A i \in DOMAIN avail : asset_dispatch[i] = avail[i].minEnergy
        /\ Shortfall(gross_target, asset_dispatch) = 0
        /\ SumSeq(asset_dispatch) > gross_target

C11_Witness ==
    /\ PassDone /\ 0 < gross_target /\ gross_target < SumMin
    /\ Len(avail) > 1
    /\ \A i \in DOMAIN avail : asset_dispatch[i] = avail[i].minEnergy
    /\ Shortfall(gross_target, asset_dispatch) = 0

----------------------------------------------------------------------------
(* Properties of the HRSG firing dispatch *)

HrsgDone == h_pc = "done"

HrsgOn == h_result.available

HrsgMin(h) == h_capacity.supp_min_mt_month[h]

HrsgMax(h) == h_capacity.supp_max_mt_month[h]

HrsgTotalDispatched == SumIdx(h_result.dispatched_supp_mt, HrsgOn)

DemandWithinFiringRange ==
    /\ HrsgOn # {}
    /\ h_capacity.total_min_shp_capacity <= h_in.shp_demand
    /\ h_in.shp_demand <= h_capacity.total_max_shp_capacity

\* some priority group holds units of unequal headroom
UnequalHeadroom ==
    \E h, k \in HrsgOn :
        /\ h_result.priority[h] = h_result.priority[k]
        /\ HrsgMax(h) - HrsgMin(h) # HrsgMax(k) - HrsgMin(k)

\* C12: when the SHP demand lies between the total minimum and the total
\* maximum firing of the available HRSGs, every available HRSG is dispatched
\* within its [minimum, maximum] firing and the total dispatched firing is
\* at least the SHP demand, whatever the headroom of the units of a group.
C12_FiringCoversDemand ==
    (HrsgDone /\ DemandWithinFiringRange) =>
        /\ \A h \in HrsgOn :
              /\ HrsgMin(h) <= h_result.dispatched_supp_mt[h]
              /\ h_result.dispatched_supp_mt[h] <= HrsgMax(h)
        /\ HrsgTotalDispatched >= h_in.shp_demand

\* the same power dispatch without free steam
WithoutFreeSteam(plan) == [i \in DOMAIN plan |-> [plan[i] EXCEPT !.FreeSteam = None]]

\* SHP deficit of STEP 3d
ShpDeficit(shp_capacity, shp_demand) == shp_demand - shp_capacity.total_max_shp_capacity

\* the part of C12 that is about units of equal headroom in every group
C12_EqualHeadroomCovers ==
    (HrsgDone /\ DemandWithinFiringRange /\ ~UnequalHeadroom) =>
        /\ \A h \in HrsgOn :
              /\ HrsgMin(h) <= h_result.dispatched_supp_mt[h]
              /\ h_result.dispatched_supp_mt[h] <= HrsgMax(h)
        /\ HrsgTotalDispatched >= h_in.shp_demand

\* the firing stays within the bounds of every unit in every case
C12_WithinBounds ==
    HrsgDone =>
        \A h \in HrsgOn :
            /\ HrsgMin(h) <= h_result.dispatched_supp_mt[h]
            /\ h_result.dispatched_supp_mt[h] <= HrsgMax(h)

----------------------------------------------------------------------------
(* Properties of the failed power dispatch *)

\* what the dispatch of this iteration computed before its loop
PreOfIteration == Prepare(DispatchArgs)

\* the dispatch found its period and assets, so it read the demand
DemandRead == PreOfIteration.status # "message"

DispatchAborted ==
    /\ power_result.kind = "insufficientCapacity"
    /\ power_result.dispatchPlan = <<>>

\* the report carries the demand and the capacity it was compared with
ShortfallReported ==
    /\ power_result.messageTotalDemand = u_in.base_demand + previous_utility_aux_mwh
    /\ power_result.totalAvailableUnits
         = PreOfIteration.plant_gross_capacity + PreOfIteration.max_import_mwh
    /\ power_result.messageTotalDemand - power_result.totalAvailableUnits > 0

DemandBeyondTolerance ==
    /\ u_pc = "extract"
    /\ DemandRead
    /\ PreOfIteration.total_demand
         > PreOfIteration.plant_gross_capacity + PreOfIteration.max_import_mwh + TOLERANCE

----------------------------------------------------------------------------
(* Properties of the lookup curves *)

LookupDone == k_pc = "done"

\* the y columns the called function returns, of a row
Returned(row) == [c \in DOMAIN k_result.y |-> row.y[c]]

HasFlags == k_fn # "get_heat_rate_for_load"

\* C16: a query of a curve with zero points fails with EmptyCurveError; it
\* never returns a value as if the lookup had succeeded.
C16_EmptyCurveFails ==
    (LookupDone /\ k_in.curve = <<>>) => k_result.outcome = "EmptyCurveError"

AtOrBelowMin == k_in.curve # <<>> /\ k_in.x <= CurveMin(k_in.curve)

AtOrAboveMax == k_in.curve # <<>> /\ k_in.x >= CurveMax(k_in.curve)

\* C17: a query with x at or below min(x) returns the first row's values
\* with clamped = "min", and a query with x at or above max(x) the last
\* row's values with clamped = "max", for every x, x <= 0 included.
C17_ClampedToBoundaryRow ==
    LookupDone =>
        /\ AtOrBelowMin =>
              /\ k_result.y = Returned(k_in.curve[1])
              /\ \/ k_result.clamped = "min"
                 \/ AtOrAboveMax /\ k_result.clamped = "max"
        /\ AtOrAboveMax =>
              /\ k_result.y = Returned(k_in.curve[Len(k_in.curve)])
              /\ \/ k_result.clamped = "max"
                 \/ AtOrBelowMin /\ k_result.clamped = "min"

\* what the three functions do share outside the curve: for a positive x
\* the values of the boundary row are returned
C17_BoundaryRowForPositiveX ==
    (LookupDone /\ k_in.x > 0) =>
        /\ AtOrBelowMin => k_result.y = Returned(k_in.curve[1])
        /\ AtOrAboveMax => k_result.y = Returned(k_in.curve[Len(k_in.curve)])

\* the flag is set only by get_stg_extraction_for_load, strictly outside
C17_FlagOnlyStrictlyOutside ==
    LookupDone =>
        (k_result.clamped # "absent" <=>
            /\ k_fn = "get_stg_extraction_for_load"
            /\ k_in.curve # <<>>
            /\ k_in.x > 0
            /\ k_in.x < CurveMin(k_in.curve) \/ k_in.x > CurveMax(k_in.curve))

AtBreakpoint == \E i \in DOMAIN k_in.curve : k_in.curve[i].x = k_in.x

Interior ==
    /\ k_in.curve # <<>>
    /\ CurveMin(k_in.curve) < k_in.x
    /\ k_in.x < CurveMax(k_in.curve)
    /\ ~AtBreakpoint

\* y is the linear interpolation at x between the rows lo and hi, to half
\* a unit, and lies between their values
LinearBetween(y, lo, hi, x) ==
    \A c \in DOMAIN y :
        /\ 2 * Abs(y[c] * (hi.x - lo.x)
                   - (lo.y[c] * (hi.x - lo.x) + (x - lo.x) * (hi.y[c] - lo.y[c])))
             <= hi.x - lo.x
        /\ Min2(lo.y[c], hi.y[c]) <= y[c]
        /\ y[c] <= Max2(lo.y[c], hi.y[c])

----------------------------------------------------------------------------
(* Properties of the configuration of a run *)

\* the period is not in FinancialYearMonth, or a lookup table has no rows
ConfigurationError == ~u_in.fym_found \/ u_in.stg_extraction_lookup = <<>>

\* C15: a missing period reference or an empty lookup table is a fatal
\* configuration error raised before the iteration starts: the loop body is
\* never entered and no dispatch or steam balance is computed.
C15_ConfigurationErrorBeforeLoop ==
    ConfigurationError =>
        /\ u_pc \in {"setup", "done"}
        /\ iteration = 0
        /\ power_result = NoPowerResult
        /\ cur = NoIteration
        /\ u_pc = "done" => (~u_result.success /\ ~u_result.converged)

\* what the run does on a missing period: the first dispatch of the loop
\* fails and the run ends in iteration 1 as POWER_ERROR
C15_MissingPeriodEndsInFirstIteration ==
    (~u_in.fym_found /\ u_pc = "done") =>
        /\ iteration = 1
        /\ ~power_result.hasPlan
        /\ cur = NoIteration
        /\ u_result.error_type = "POWER_ERROR"
        /\ ~u_result.converged

----------------------------------------------------------------------------
(* Properties of the free steam *)

----------------------------------------------------------------------------
(* Properties of the SHP demand of the steam header balance *)

\* the iteration has computed its steam balance
SteamBalanced == cur.extraction_mode # "none"

\* C20: the SHP total demand the steam header balance returns is process
\* SHP + fixed SHP + the STG's own inlet steam + the SHP consumed by the
\* STG-extraction paths + the SHP consumed by the PRDS paths, for the
\* extraction mode in force in that iteration.
C20_ShpDemandIsSumOfPaths ==
    SteamBalanced =>
        cur.shp_demand = u_in.steam.shp_process + u_in.steam.shp_fixed
                         + cur.stg_shp_required
                         + cur.shp_for_stg_extraction + cur.shp_for_prds

\* the sum is that of the fixed ratios in every iteration
C20_ShpDemandOfFixedRatios ==
    SteamBalanced =>
        /\ cur.shp_demand = cur.base_shp_demand + cur.stg_shp_required
        /\ cur.extraction_mode = "legacy_fixed_ratio" =>
               cur.shp_demand = u_in.steam.shp_process + u_in.steam.shp_fixed
                                + cur.stg_shp_required
                                + cur.shp_for_stg_extraction + cur.shp_for_prds

----------------------------------------------------------------------------
(* Properties of the order of the corrective steps of an iteration *)

\* the corrective steps in the order the loop body evaluates them
CorrectiveSteps == <<"balance", "recover", "converge", "reduce">>

\* the order deficit-reduction, surplus-recovery, excess-steam rebalance,
\* convergence check
StatedSteps == <<"reduce", "recover", "balance", "converge">>

\* a step of the order is followed by the next step of the order; the last
\* step by the end of the iteration; a break leaves the loop
EvaluatedInOrder(order) ==
    \A i \in DOMAIN order :
        u_pc = order[i] =>
            \/ u_pc' = (IF i < Len(order) THEN order[i + 1] ELSE "next")
            \/ u_pc' = "return"

----------------------------------------------------------------------------
(* Properties of independent runs *)

\* what get_hrsg_assets returns to a run that runs alone
AssetsAlone(r) == load_hrsg_assets_from_db(HRSG_ASSETS_DEFAULT, r_in.rows, r_in.query_ok[r])

\* C21: independent runs share no mutable state: no variable written during
\* one run is read by another run, so under any interleaving each run
\* returns the same result as when it runs alone.
C21_RunsShareNoState ==
    \A r \in Runs :
        /\ r_seen[r] \subseteq {0, r}
        /\ r_pc[r] = "done" => r_got[r] = AssetsAlone(r)

\* the result of a run differs from its result alone only if its own query
\* of the assets fails while the other run's query answers
C21_SameWhenQueriesAnswer ==
    \A r \in Runs :
        (r_pc[r] = "done" /\ r_in.query_ok[r]) => r_got[r] = AssetsAlone(r)

\* a run has read the dictionary another run has bound
C21_ReadsOtherRun ==
    \E r \in Runs : r_pc[r] = "done" /\ r_seen[r] = {3 - r} /\ r_got[r] # AssetsAlone(r)

----------------------------------------------------------------------------
(* Properties of the STG limit after a reduction *)

\* the dispatch of the iteration after a REDUCE_STG step has been read
AfterReduction == u_pc = "steam" /\ prev.reduced /\ cur.iteration = prev.iteration + 1

\* max(0, STG original max - stgReductionMWh)
ReducedStgMax == Max2(0, stg_original_max_mwh - stg_reduction_mwh)

\* the minimum energy of the STG of the plant
StgUnitMin ==
    SumIdx([i \in DOMAIN u_in.plant |-> u_in.plant[i].minMW * u_in.plant[i].opHours * Scale],
           {i \in DOMAIN u_in.plant : IsSTG(u_in.plant[i])})

\* C22: after a REDUCE_STG step the STG's dispatched generation in iteration
\* k+1 is at most max(0, STG original max - stgReductionMWh at the end of
\* iteration k), whatever the STG's configured minimum is.
C22_ReductionBoundsStg == AfterReduction => cur.stg_gross_mwh <= ReducedStgMax

\* the reduction bounds the STG only down to its configured minimum
C22_BoundedDownToMinimum ==
    AfterReduction => cur.stg_gross_mwh <= Max2(StgUnitMin, ReducedStgMax)

\* after a reduction the STG is dispatched at its minimum, above the limit
C22_StgAboveReducedMax ==
    /\ AfterReduction
    /\ cur.stg_gross_mwh = StgUnitMin
    /\ cur.stg_gross_mwh > ReducedStgMax

----------------------------------------------------------------------------
(* Properties of the recovery of a reduction *)

\* what stgReductionMWh is lowered by in a step
ReductionDrop == stg_reduction_mwh - stg_reduction_mwh'

\* twice the drop, converted to steam, is within the SHP surplus; the
\* quantities are kept to 0.01 MWh, so half a unit of rounding is allowed
WithinHalfOfRecoverable ==
    2 * ReductionDrop * STG_SHP_PER_MWH <= Abs(cur.shp_deficit) * 100 + STG_SHP_PER_MWH

\* C24: when SHP has surplus and a prior STG reduction exists, one iteration
\* lowers stgReductionMWh by at most 50% of the recoverable amount (the
\* surplus converted to MWh) and by no more than the current reduction, so
\* stgReductionMWh never becomes negative; nothing else lowers it.
C24_RecoveryIsDamped ==
    /\ [](stg_reduction_mwh >= 0)
    /\ [][ReductionDrop > 0 =>
             /\ u_pc = "recover"
             /\ cur.shp_deficit < 0 /\ stg_reduction_mwh > 0
             /\ WithinHalfOfRecoverable
             /\ ReductionDrop <= stg_reduction_mwh
             /\ cur'.actual_recovery = ReductionDrop]_vars

\* a recovery of half the recoverable amount that leaves part of the
\* reduction in place
C24_Witness ==
    /\ u_pc = "converge"
    /\ cur.recovered
    /\ cur.actual_recovery = RoundMulDiv(Abs(cur.shp_deficit), 100, 2 * STG_SHP_PER_MWH)
    /\ stg_reduction_mwh > 0

\* a recovery of the whole reduction, which is less than half the
\* recoverable amount
C24_WholeReductionRecovered ==
    /\ u_pc = "converge"
    /\ cur.recovered
    /\ cur.actual_recovery < RoundMulDiv(Abs(cur.shp_deficit), 100, 2 * STG_SHP_PER_MWH)
    /\ stg_reduction_mwh = 0

----------------------------------------------------------------------------
(* Properties of the import tranche of the power dispatch *)

\* the total of the configured unit minimums
ConfiguredMin == SumSeq(MinLoad(BuildAvail(d_in.plant)))

\* the dispatch has returned with the import it uses
ImportDecided == d_pc = "done" /\ d_result.kind \in {"plan", "no_demand"}

\* import used = min(max import, max(0, total demand - total of unit minimums))
ImportIsFirstTranche ==
    d_result.importUnits =
        Min2(d_pre.max_import_mwh, Max2(0, d_pre.total_demand - ConfiguredMin))

\* C25: import capacity is consumed as a first tranche before any unit is
\* raised above its minimum: import used equals min(max import, max(0, total
\* demand - total of unit minimums)), and a unit is dispatched above its
\* minimum only when import is used at its full capacity.
C25_ImportBeforeUnits ==
    /\ ImportDecided => ImportIsFirstTranche
    /\ HasPlan =>
          \A i \in DOMAIN PlanGross :
              PlanGross[i] > avail[i].minEnergy
                  => d_result.importUnits = d_pre.max_import_mwh

\* the import used is the first tranche in every dispatch
C25_ImportUsed == ImportDecided => ImportIsFirstTranche

----------------------------------------------------------------------------
(* Properties of the load-based LP and MP balance *)

LoadBalanced == k_pc = "balanced"

\* lookup rate x operating hours of a header
LpAvailable == k_result.y[1] * k_balance.demand.stg_op_hours

MpAvailable == k_result.y[2] * k_balance.demand.stg_op_hours

\* C26: in load-based mode, for LP and for MP: steam from STG = min(lookup
\* rate x operating hours, header demand), steam from PRDS = header demand -
\* steam from STG (>= 0), and reported excess = max(0, lookup rate x hours -
\* header demand); hence from-STG + from-PRDS equals the header's total
\* demand.
C26_LoadBasedSplit ==
    LoadBalanced =>
        LET lp == k_balance.lp_balance
            mp == k_balance.mp_balance
        IN /\ lp.lp_from_stg = Min2(LpAvailable, lp.lp_total)
           /\ lp.lp_from_prds = lp.lp_total - lp.lp_from_stg
           /\ lp.lp_from_prds >= 0
           /\ lp.lp_stg_excess = Max2(0, LpAvailable - lp.lp_total)
           /\ lp.lp_from_stg + lp.lp_from_prds = lp.lp_total
           /\ mp.mp_from_stg = Min2(MpAvailable, mp.mp_total)
           /\ mp.mp_from_prds = mp.mp_total - mp.mp_from_stg
           /\ mp.mp_from_prds >= 0
           /\ mp.mp_stg_excess = Max2(0, MpAvailable - mp.mp_total)
           /\ mp.mp_from_stg + mp.mp_from_prds = mp.mp_total

\* the STG could extract more LP than the header needs and less MP: the LP
\* excess is reported and MP is routed to the PRDS
C26_Witness ==
    /\ LoadBalanced
    /\ k_result.interpolated
    /\ k_balance.lp_balance.lp_total > 0
    /\ k_balance.lp_balance.lp_stg_excess > 0
    /\ k_balance.lp_balance.lp_from_prds = 0
    /\ k_balance.mp_balance.mp_from_stg = MpAvailable
    /\ k_balance.mp_balance.mp_from_prds > 0

----------------------------------------------------------------------------
(* Properties of a run whose STG has a minimum load *)

\* the plant has an STG that is available with a minimum energy above 0
StgAvailableWithMin == StgUnitMin > 0

\* the iteration found the SHP short with the STG dispatched at its minimum
ShortAtStgMinimum(c) ==
    c.iteration > 0 /\ c.shp_deficit > 0 /\ c.stg_gross_mwh = StgUnitMin

\* C27 as stated: if the STG is available with a minimum energy greater than
\* 0, its dispatched generation is greater than 0 in every iteration, so the
\* SHP_IMPOSSIBLE exit is never taken; a run whose SHP demand exceeds SHP
\* capacity even with the STG at its minimum performs all 50 iterations and
\* ends with converged=false.
C27_StgMinimumLoopsToCap ==
    StgAvailableWithMin =>
        /\ cur.iteration > 0 => (cur.stg_gross_mwh > 0 /\ cur.action # "SHP_IMPOSSIBLE")
        /\ (u_pc = "done" /\ ShortAtStgMinimum(cur)) =>
               /\ u_result.iterations_used = USD_ITERATION_LIMIT
               /\ ~u_result.converged

\* C27, amended: if the STG is available with a minimum energy greater than
\* 0, its dispatched generation is at least that minimum in every iteration
\* whose total power demand is above 0, so the SHP_IMPOSSIBLE exit is taken
\* only in an iteration with no power demand; an iteration that finds the SHP
\* short with the STG at its minimum ends with REDUCE_STG, and a run that ends
\* on such an iteration has converged=false and has either performed all 50
\* iterations or was aborted by the next power dispatch (POWER_INSUFFICIENT).
C27_StgMinimumKeepsRunning ==
    StgAvailableWithMin =>
        /\ (cur.iteration > 0 /\ cur.total_demand_mwh > 0) =>
               (cur.stg_gross_mwh >= StgUnitMin /\ cur.action # "SHP_IMPOSSIBLE")
        /\ cur.action = "SHP_IMPOSSIBLE" => cur.total_demand_mwh = 0
        /\ (ShortAtStgMinimum(cur) /\ u_pc \in {"next", "return", "done"}) =>
               cur.action = "REDUCE_STG"
        /\ (u_pc = "done" /\ ShortAtStgMinimum(cur)) =>
               /\ ~u_result.converged
               /\ \/ /\ u_result.iterations_used = USD_ITERATION_LIMIT
                     /\ u_result.error_type = "USD_NOT_CONVERGED"
                  \/ /\ u_result.iterations_used < USD_ITERATION_LIMIT
                     /\ u_result.error_type = "POWER_INSUFFICIENT"

\* a run that was short of SHP with the STG at its minimum in its 50th
\* iteration
C27_Witness ==
    /\ u_pc = "done"
    /\ StgAvailableWithMin
    /\ ShortAtStgMinimum(cur)
    /\ cur.iteration = USD_ITERATION_LIMIT
    /\ u_result.iterations_used = USD_ITERATION_LIMIT

\* the SHP_IMPOSSIBLE exit of a run whose STG has a minimum load
C27_ImpossibleWithoutDemand ==
    /\ u_pc = "done"
    /\ StgAvailableWithMin
    /\ cur.action = "SHP_IMPOSSIBLE"

----------------------------------------------------------------------------
(* C28: a returned plan covers the demand                                  *)

PlanReturned == d_pc = "done" /\ d_result.kind = "plan"

\* demand left unmet by the units' net generation and the import used
UnmetDemand ==
    d_result.totalDemandUnits
        - (d_result.totalNetGeneration + d_result.importUnits)

\* C28: every result of distribute_by_priority that carries a dispatch plan
\* and no insufficiency flag has net generation plus import used covering
\* the total demand within TOLERANCE; it is never returned with
\* converged = true and remainingDemandUnits = 0 while demand is unmet
C28_PlanCoversDemand ==
    PlanReturned =>
        /\ UnmetDemand <= TOLERANCE
        /\ ~(/\ d_result.converged
             /\ d_result.remainingDemandUnits = 0
             /\ UnmetDemand > TOLERANCE)

----------------------------------------------------------------------------
(* C29: the import compensation follows the STG reduction                  *)

\* the loop body has run to its end, or the loop was left
IterationEnded == u_pc \in {"next", "return"}

\* C29: at the end of every iteration of usd_iterate importCompensationMWh
\* equals stgReductionMWh and both are >= 0, after any sequence of
\* REDUCE_STG and RECOVER_STG steps; the returned dict carries the same pair
C29_ImportCompensatesReduction ==
    /\ IterationEnded =>
          /\ import_compensation_mwh = stg_reduction_mwh
          /\ stg_reduction_mwh >= 0
          /\ import_compensation_mwh >= 0
    /\ u_pc = "done" =>
          /\ u_result.import_compensation_mwh = u_result.stg_reduction_mwh
          /\ u_result.stg_reduction_mwh >= 0

\* an iteration ends after a recovery that left part of an earlier reduction
C29_Witness ==
    /\ u_pc = "next"
    /\ cur.recovered
    /\ prev.reduced
    /\ stg_reduction_mwh > 0
    /\ import_compensation_mwh = stg_reduction_mwh

----------------------------------------------------------------------------
(* C30: the STG corrections of one iteration                               *)

\* the corrections the current iteration has applied
CorrectionsApplied ==
    {s \in {"balance", "recover", "reduce"} :
        \/ s = "balance" /\ cur.balanced
        \/ s = "recover" /\ cur.recovered
        \/ s = "reduce" /\ cur.reduced}

\* C30: within one iteration of usd_iterate at most one STG correction is
\* applied: REDUCE_STG never occurs with RECOVER_STG or the excess-steam
\* rebalance, and the recovery and the rebalance never both change the
\* state in the same iteration
C30_OneCorrectionPerIteration == Cardinality(CorrectionsApplied) <= 1

\* REDUCE_STG is never applied together with another correction
C30_ReduceIsAlone == cur.reduced => CorrectionsApplied = {"reduce"}

\* one iteration both sets the STG minimum override of the rebalance and
\* lowers the reduction
C30_RebalanceAndRecovery ==
    /\ u_pc = "converge"
    /\ cur.balanced /\ cur.recovered
    /\ stg_min_override_mwh # None
    /\ cur.actual_recovery > 0

====
